---- MODULE Spec2Model ----
(***************************************************************************)
(* Model of the IPCom client engine (src/ipcom/ipcom_tcp_client.py), the   *)
(* CLI cover layer (src/custom_components/ipcom/cli/ipcom_cli.py) and the  *)
(* Home Assistant cover entity (src/custom_components/ipcom/cover.py).     *)
(*                                                                         *)
(* Spec        shadow writer + cover safety: one thread calling the client *)
(*             API (turn_on / turn_off, control_cover) while the receive   *)
(*             thread handles snapshots, or Home Assistant running one CLI *)
(*             process per command; and the gateway that reports state.    *)
(* SpecEngine  persistent mode: command-queue, keep-alive, status-poll and *)
(*             receive threads sharing the socket.                          *)
(* SpecSession connect / authenticate / teardown / reconnect.               *)
(***************************************************************************)
EXTENDS Integers, Sequences, FiniteSets, TLC

\* ---------------------------------------------------------------- bounds
NumModules == 2
NumOutputs == 2
MaxCalls == 2        \* operations the calling thread starts
MaxSnapshots == 2    \* snapshots the receive thread accepts
NumKeys == 2         \* public keys the gateway may hand out

Modules == 1..NumModules
Outputs == 1..NumOutputs

\* ------------------------------------------------------ program constants
OFF == 0
ON == 255
DimmerModule == 6
DimmerFull == 100

Values == {OFF, ON}
Row == [Outputs -> Values]
Matrix == [Modules -> Row]

NoSnapshot == << >>

\* ---------------------------------------------------------------- devices
\* devices.yaml entries used by the callers: one shutter (two relays on one
\* module, as in test_shadow_state.py) and one light on another module.
UpRelay == [module |-> 1, output |-> 1]
DownRelay == [module |-> 1, output |-> 2]
Light == [module |-> 2, output |-> 1]
Devices == {UpRelay, DownRelay, Light}

VARIABLES
    connected,        \* IPComClient._connected
    authenticated,    \* IPComClient._authenticated
    publicKey,        \* IPComEncryption._public_key (0 = None)
    secure,           \* IPComEncryption._secure
    latestSnapshot,   \* IPComClient._latest_snapshot
    pendingWrites,    \* IPComClient._pending_writes
    processing,       \* IPComClient._processing
    queue,            \* IPComClient._command_queue
    lock,             \* IPComClient._lock: the thread holding it, or "none"
    cq,               \* command-queue thread: position in its loop
    ka,               \* keep-alive thread: position in its loop
    sp,               \* status-poll thread: position in its loop
    bus,              \* gateway: last row commanded to each module
    shown,            \* gateway: matrix its snapshots report (lags bus)
    rx,               \* receive thread: position inside the snapshot handler
    sv,               \* activation record of the running set_value call
    mode,             \* "client": the caller drives this IPComClient;
                      \* "entity": Home Assistant runs one CLI per command
    app,              \* calling thread: what it is doing
    cv,               \* activation record of the running cover action
    ha,               \* coordinator.data: relay values Home Assistant holds
    lastTx,           \* the message most recently written to the socket
    commanded,        \* per module: values set_value has stored since the
                      \* shadow state was last cleared
    calls,            \* operations started so far
    snapshots,        \* snapshots accepted so far
    keyBytes,         \* IPComEncryption._public_key as bytes (<< >> = None)
    recvBuffer,       \* IPComClient._recv_buffer
    io                \* byte level: the input under test and what came out

sessionVars == <<connected, authenticated, publicKey, secure>>
shadowVars == <<latestSnapshot, pendingWrites>>
gatewayVars == <<bus, shown>>
callerVars == <<mode, app, cv, ha, calls>>
engineVars == <<processing, queue, lock, cq, ka, sp>>
ghostVars == <<lastTx, commanded, snapshots>>
wireVars == <<keyBytes, recvBuffer, io>>

vars == <<sessionVars, shadowVars, gatewayVars, callerVars, engineVars,
          ghostVars, wireVars, rx, sv>>

\* ------------------------------------------------------------- helpers
Cell(mx, d) == mx[d.module][d.output]

EmptyMap == [x \in {} |-> 0]

NoCall == [pc |-> "none", module |-> 0, output |-> 0, value |-> 0,
           member |-> FALSE, values |-> <<>>, base |-> <<>>, epoch |-> 0,
           storedAt |-> 0, keyError |-> FALSE, auth |-> FALSE,
           busy |-> FALSE, prior |-> <<>>, error |-> "none"]

NoTx == [kind |-> "none", auth |-> FALSE, keying |-> "none"]

\* a background emitter waiting for its next tick
LoopIdle == [pc |-> "wait", busy |-> FALSE]

NoCover == [pc |-> "none", via |-> "none", request |-> "none",
            action |-> "none", warned |-> FALSE, entryUp |-> 0,
            entryDown |-> 0, firstFailed |-> FALSE, secondTried |-> FALSE,
            offSent |-> FALSE, onCmd |-> FALSE, upOff |-> FALSE,
            downOff |-> FALSE, result |-> "none", entryBus |-> <<>>]

\* IPComClient.turn_on: module 6 (EXO DIM) is percent scaled
TurnOnValue(module) == IF module = DimmerModule THEN DimmerFull ELSE ON

\* variant of Accepts without the snapshot check
AcceptsWithoutSnapshot(module, output, value) ==
    /\ module \in 1..16
    /\ output \in 1..8
    /\ value \in 0..255
    /\ connected

\* variant of Accepts without the output range check
AcceptsAnyOutput(module, output, value) ==
    /\ module \in 1..16
    /\ value \in 0..255
    /\ connected
    /\ latestSnapshot # NoSnapshot

\* ------------------------------------------------------- set_value steps
\* set_value: argument and session checks (lines 1225-1236)
Accepts(module, output, value) ==
    /\ module \in 1..16
    /\ output \in 1..8
    /\ value \in 0..255
    /\ connected
    /\ latestSnapshot # NoSnapshot

\* the exception of the first check that fails (lines 1225-1236)
Rejection(module, output, value) ==
    IF module \notin 1..16 \/ output \notin 1..8 \/ value \notin 0..255
    THEN "ValueError"
    ELSE IF ~connected THEN "NotConnected"
    ELSE "NoSnapshot"

\* set_value up to `if module in self._pending_writes` (lines 1225-1240)
SvEnter ==
    /\ sv.pc = "enter"
    /\ IF Accepts(sv.module, sv.output, sv.value)
       THEN sv' = [sv EXCEPT !.pc = "read",
                             !.member = (sv.module \in DOMAIN pendingWrites)]
       ELSE sv' = [sv EXCEPT !.pc = "raised",
                             !.error = Rejection(sv.module, sv.output, sv.value)]
    /\ UNCHANGED <<sessionVars, shadowVars, gatewayVars, callerVars,
                   engineVars, ghostVars, rx>>
    /\ UNCHANGED wireVars

\* variant of ModuleValues that ignores the shadow state
ModuleValuesSnapshotOnly(member, module) == latestSnapshot[module]

\* The row set_value starts from (lines 1240-1245), given the outcome of the
\* membership test.
ModuleValues(member, module) ==
    IF member THEN pendingWrites[module] ELSE latestSnapshot[module]

\* values[output - 1] = value (line 1248)
UpdateTarget(values, output, value) == [values EXCEPT ![output] = value]

\* The row the carry-over law starts from: the module's pending row if one
\* exists, otherwise the latest snapshot's row.
CarryBase(module) ==
    IF module \in DOMAIN pendingWrites
    THEN pendingWrites[module] ELSE latestSnapshot[module]

\* set_value: read the row and update the target output (lines 1242-1248).
\* A row removed since the membership test makes the subscript raise KeyError.
SvRead ==
    /\ sv.pc = "read"
    /\ IF sv.member /\ sv.module \notin DOMAIN pendingWrites
       THEN sv' = [sv EXCEPT !.pc = "raised", !.keyError = TRUE]
       ELSE sv' = [sv EXCEPT
                    !.pc = "commit",
                    !.base = CarryBase(sv.module),
                    !.epoch = snapshots,
                    !.values = UpdateTarget(ModuleValues(sv.member, sv.module),
                                            sv.output, sv.value)]
    /\ UNCHANGED <<sessionVars, shadowVars, gatewayVars, callerVars,
                   engineVars, ghostVars, rx>>
    /\ UNCHANGED wireVars

\* first bus address of the output modules
BusAddressBase == 60

\* to_address = 60 + (module - 1) (line 1257; frame_builder.py line 143)
ToAddress(module) == BusAddressBase + (module - 1)

\* the module that answers at an address
ModuleAt(addr) == addr - BusAddressBase + 1

\* self._pending_writes[module] = values (line 1251)
StoreShadow(pw, module, values) ==
    [m \in DOMAIN pw \cup {module} |-> IF m = module THEN values ELSE pw[m]]

\* send_command (lines 1135-1143) may write to the socket
MaySend == connected

\* set_value: store the row in the shadow state, build the command and send
\* it (lines 1251-1275).  send_command raises when not connected and sendall
\* may raise a socket error; a row that is sent reaches the module addressed.
SvCommit ==
    /\ sv.pc = "commit"
    /\ pendingWrites' = StoreShadow(pendingWrites, sv.module, sv.values)
    /\ commanded' = [commanded EXCEPT ![sv.module] =
           [o \in DOMAIN @ \cup {sv.output} |->
               IF o = sv.output THEN sv.value ELSE @[o]]]
    /\ \/ /\ MaySend
          /\ bus' = [bus EXCEPT ![ModuleAt(ToAddress(sv.module))] = sv.values]
          /\ sv' = [sv EXCEPT !.pc = "ok", !.auth = authenticated,
                              !.busy = processing, !.prior = bus,
                              !.storedAt = snapshots]
       \/ /\ sv' = [sv EXCEPT !.pc = "raised", !.storedAt = snapshots]
          /\ UNCHANGED bus
    /\ UNCHANGED <<sessionVars, latestSnapshot, shown, callerVars,
                   engineVars, lastTx, snapshots, rx>>
    /\ UNCHANGED wireVars

\* --------------------------------------------------------- receive thread
\* the gateway sends snapshots on a session it has authenticated
GatewayStreams == connected /\ authenticated

\* _parse_frames raw branch / _handle_state_snapshot: the snapshot is stored
\* (lines 847, 1018) ...
RxInstall ==
    /\ mode \in {"client", "engine", "session"}
    /\ rx.pc = "recv"
    /\ GatewayStreams
    /\ snapshots < MaxSnapshots
    /\ rx' = [rx EXCEPT !.pc = "installed"]
    /\ latestSnapshot' = shown
    /\ snapshots' = snapshots + 1
    /\ UNCHANGED <<sessionVars, pendingWrites, gatewayVars, callerVars,
                   engineVars, lastTx, commanded, sv>>
    /\ UNCHANGED wireVars

\* ... the shadow state is cleared (lines 850, 1021) ...
ClearShadow(pw) == EmptyMap

RxClear ==
    /\ rx.pc = "installed"
    /\ pendingWrites' = ClearShadow(pendingWrites)
    /\ commanded' = [m \in Modules |-> EmptyMap]
    /\ rx' = [rx EXCEPT !.pc = "cleared"]
    /\ UNCHANGED <<sessionVars, latestSnapshot, gatewayVars, callerVars,
                   engineVars, lastTx, snapshots, sv>>
    /\ UNCHANGED wireVars

\* ... and the snapshot observer is called (lines 853-854, 1027-1028).
RxDispatch ==
    /\ rx.pc = "cleared"
    /\ rx' = [rx EXCEPT !.pc = "dispatched"]
    /\ UNCHANGED <<sessionVars, shadowVars, gatewayVars, callerVars,
                   engineVars, ghostVars, sv>>
    /\ UNCHANGED wireVars

\* back in recv() of the next loop iteration
RxNext ==
    /\ rx.pc = "dispatched"
    /\ rx' = [rx EXCEPT !.pc = "recv"]
    /\ UNCHANGED <<sessionVars, shadowVars, gatewayVars, callerVars,
                   engineVars, ghostVars, sv>>
    /\ UNCHANGED wireVars

\* _cleanup_socket (lines 413-422)
CleanupSocket ==
    /\ connected' = FALSE
    /\ authenticated' = FALSE
    /\ UNCHANGED <<publicKey, secure>>

\* ---------------------------------------------------------------- gateway
\* the gateway's snapshots catch up with the rows written to it
ServerReflect ==
    /\ shown # bus
    /\ shown' = bus
    /\ UNCHANGED <<sessionVars, shadowVars, bus, callerVars, engineVars,
                   ghostVars, rx, sv>>
    /\ UNCHANGED wireVars

\* ------------------------------------------------------------ direct calls
\* IPComClient.turn_on / turn_off (lines 1170-1184) entering set_value
NewCall(d, on) ==
    [NoCall EXCEPT !.pc = "enter", !.module = d.module, !.output = d.output,
                   !.value = IF on THEN TurnOnValue(d.module) ELSE OFF]

\* control_device 'on' / 'off' (ipcom_cli.py lines 309-315)
CallSetValue ==
    /\ mode \in {"client", "session"}
    /\ app = "idle"
    /\ calls < MaxCalls
    /\ \E d \in Devices, on \in BOOLEAN : sv' = NewCall(d, on)
    /\ app' = "device"
    /\ calls' = calls + 1
    /\ UNCHANGED <<sessionVars, shadowVars, gatewayVars, mode, cv, ha, engineVars,
                   ghostVars, rx>>
    /\ UNCHANGED wireVars

ReturnSetValue ==
    /\ app = "device"
    /\ sv.pc \in {"ok", "raised"}
    /\ sv' = NoCall
    /\ app' = "idle"
    /\ UNCHANGED <<sessionVars, shadowVars, gatewayVars, mode, cv, ha, calls,
                   engineVars, ghostVars, rx>>
    /\ UNCHANGED wireVars

\* ------------------------------------------------- cover actions (CLI)
CoverActions == {"open", "close", "stop"}

\* control_cover safety check (ipcom_cli.py lines 423-434): the action that
\* is executed, given the snapshot the client holds on entry
SafetyCheck(request, snapshot) ==
    IF /\ snapshot # NoSnapshot
       /\ Cell(snapshot, UpRelay) > 0
       /\ Cell(snapshot, DownRelay) > 0
    THEN "stop" ELSE request

\* control_cover (lines 438-467): the relay each of the two steps addresses
\* and whether it is turned on
FirstStep(action) ==
    IF action = "open" THEN [relay |-> DownRelay, on |-> FALSE]
    ELSE [relay |-> UpRelay, on |-> FALSE]

SecondStep(action) ==
    IF action = "open" THEN [relay |-> UpRelay, on |-> TRUE]
    ELSE IF action = "close" THEN [relay |-> DownRelay, on |-> TRUE]
    ELSE [relay |-> DownRelay, on |-> FALSE]

\* what a completed write adds to the record of the running cover action
Recorded(c, call) ==
    [c EXCEPT
        !.onCmd = @ \/ call.value > 0,
        !.upOff = @ \/ (call.module = UpRelay.module
                        /\ call.output = UpRelay.output /\ call.value = 0),
        !.downOff = @ \/ (call.module = DownRelay.module
                          /\ call.output = DownRelay.output /\ call.value = 0)]

\* control_cover: entry, safety check and the first turn_off (lines 423-453)
CliCoverStart ==
    /\ mode = "client"
    /\ app = "idle"
    /\ calls < MaxCalls
    /\ \E request \in CoverActions :
          LET action == SafetyCheck(request, latestSnapshot)
              first == FirstStep(action)
          IN  /\ cv' = [NoCover EXCEPT
                          !.pc = "wait1", !.via = "cli",
                          !.request = request, !.action = action,
                          !.warned = (action # request),
                          !.entryUp = IF latestSnapshot = NoSnapshot THEN 0
                                      ELSE Cell(latestSnapshot, UpRelay),
                          !.entryDown = IF latestSnapshot = NoSnapshot THEN 0
                                        ELSE Cell(latestSnapshot, DownRelay),
                          !.entryBus = bus]
              /\ sv' = NewCall(first.relay, first.on)
    /\ app' = "cover"
    /\ calls' = calls + 1
    /\ UNCHANGED <<sessionVars, shadowVars, gatewayVars, mode, ha, engineVars,
                   ghostVars, rx>>
    /\ UNCHANGED wireVars

\* variant of AfterFirstStep that carries on after a failed first step
AfterFirstStepAlways(ok) == "wait2"

\* control_cover: an exception of the first step ends the action (lines
\* 477-479); otherwise the second step follows
AfterFirstStep(ok) == IF ok THEN "wait2" ELSE "done"

CliCoverStep2 ==
    /\ app = "cover"
    /\ cv.via = "cli"
    /\ cv.pc = "wait1"
    /\ sv.pc \in {"ok", "raised"}
    /\ LET ok == sv.pc = "ok"
           c1 == IF ok THEN [Recorded(cv, sv) EXCEPT
                                !.offSent = cv.action \in {"open", "close"}]
                 ELSE [cv EXCEPT !.firstFailed = TRUE]
           next == AfterFirstStep(ok)
           second == SecondStep(cv.action)
       IN  IF next = "wait2"
           THEN /\ cv' = [c1 EXCEPT !.pc = "wait2", !.secondTried = TRUE]
                /\ sv' = NewCall(second.relay, second.on)
           ELSE /\ cv' = [c1 EXCEPT !.pc = "done", !.result = "failed"]
                /\ sv' = NoCall
    /\ UNCHANGED <<sessionVars, shadowVars, gatewayVars, mode, app, ha, calls,
                   engineVars, ghostVars, rx>>
    /\ UNCHANGED wireVars

\* control_cover: return True (line 475) or the except branch (477-479)
CliCoverReturn ==
    /\ app = "cover"
    /\ cv.via = "cli"
    /\ cv.pc = "wait2"
    /\ sv.pc \in {"ok", "raised"}
    /\ cv' = IF sv.pc = "ok"
             THEN [Recorded(cv, sv) EXCEPT !.pc = "done", !.result = "ok"]
             ELSE [cv EXCEPT !.pc = "done", !.result = "failed"]
    /\ sv' = NoCall
    /\ UNCHANGED <<sessionVars, shadowVars, gatewayVars, mode, app, ha, calls,
                   engineVars, ghostVars, rx>>
    /\ UNCHANGED wireVars

CoverDone ==
    /\ app = "cover"
    /\ cv.via = "cli"
    /\ cv.pc = "done"
    /\ cv' = NoCover
    /\ app' = "idle"
    /\ UNCHANGED <<sessionVars, shadowVars, gatewayVars, mode, ha, calls,
                   engineVars, ghostVars, rx, sv>>
    /\ UNCHANGED wireVars

\* ----------------------------------------- cover actions (cover entity)
\* async_open_cover / async_close_cover (cover.py lines 311-313, 350-352):
\* the opposite relay is turned off first only when coordinator.data shows it
\* on; async_stop_cover always runs both commands
NeedsFirst(request, data) ==
    IF request = "open" THEN data.down > 0
    ELSE IF request = "close" THEN data.up > 0
    ELSE TRUE

\* the action the entity executes for a request (no conversion to stop)
EntityAction(request, data) == request

EntCoverStart ==
    /\ mode = "entity"
    /\ app = "idle"
    /\ calls < MaxCalls
    /\ sv.pc = "none"
    /\ \E request \in CoverActions :
          cv' = [NoCover EXCEPT
                    !.pc = IF NeedsFirst(request, ha) THEN "e1" ELSE "e2",
                    !.via = "entity", !.request = request,
                    !.action = EntityAction(request, ha),
                    !.warned = (EntityAction(request, ha) # request),
                    !.entryUp = ha.up, !.entryDown = ha.down,
                    !.entryBus = bus]
    /\ app' = "cover"
    /\ calls' = calls + 1
    /\ UNCHANGED <<sessionVars, shadowVars, gatewayVars, mode, ha, engineVars,
                   ghostVars, rx, sv>>
    /\ UNCHANGED wireVars

\* coordinator.async_execute_command (coordinator.py lines 794-893) running
\* `ipcom_cli.py on|off <device>`: a fresh client connects, waits for its
\* first snapshot and calls set_value once (ipcom_cli.py lines 985-1009).
\* The completed call of that client:
SubprocessWrite(relay, on) ==
    [NoCall EXCEPT
        !.pc = "ok", !.module = relay.module, !.output = relay.output,
        !.value = IF on THEN TurnOnValue(relay.module) ELSE OFF,
        !.base = shown[relay.module],
        !.values = UpdateTarget(shown[relay.module], relay.output,
                                IF on THEN TurnOnValue(relay.module) ELSE OFF),
        !.auth = TRUE, !.prior = bus]

\* cover.py lines 321-326: a failed first command aborts open and close
EntityAfterFirst(request, ok) ==
    IF ok \/ request = "stop" THEN "e2" ELSE "done"

EntExecFirst ==
    /\ app = "cover"
    /\ cv.via = "entity"
    /\ cv.pc = "e1"
    /\ \E ok \in BOOLEAN :
          LET first == FirstStep(cv.action)
              call == SubprocessWrite(first.relay, first.on)
              next == EntityAfterFirst(cv.request, ok)
              c1 == IF ok THEN [Recorded(cv, call) EXCEPT
                                    !.offSent = cv.action \in {"open", "close"}]
                    ELSE [cv EXCEPT !.firstFailed = TRUE,
                                    !.result = "failed"]
          IN  /\ cv' = [c1 EXCEPT !.pc = next]
              /\ IF ok
                 THEN /\ sv' = call
                      /\ bus' = [bus EXCEPT ![call.module] = call.values]
                 ELSE /\ sv' = NoCall
                      /\ UNCHANGED bus
    /\ UNCHANGED <<sessionVars, shadowVars, shown, mode, app, ha, calls,
                   engineVars, ghostVars, rx>>
    /\ UNCHANGED wireVars

EntExecSecond ==
    /\ app = "cover"
    /\ cv.via = "entity"
    /\ cv.pc = "e2"
    /\ \E ok \in BOOLEAN :
          LET second == SecondStep(cv.action)
              call == SubprocessWrite(second.relay, second.on)
              c1 == IF ok THEN Recorded(cv, call)
                    ELSE [cv EXCEPT !.result = "failed"]
          IN  /\ cv' = [c1 EXCEPT !.pc = "done", !.secondTried = TRUE,
                                  !.result = IF c1.result = "failed"
                                             THEN "failed" ELSE "ok"]
              /\ IF ok
                 THEN /\ sv' = call
                      /\ bus' = [bus EXCEPT ![call.module] = call.values]
                 ELSE /\ sv' = NoCall
                      /\ UNCHANGED bus
    /\ UNCHANGED <<sessionVars, shadowVars, shown, mode, app, ha, calls,
                   engineVars, ghostVars, rx>>
    /\ UNCHANGED wireVars

\* the entity's action returns; the subprocess is gone
EntCoverDone ==
    /\ app = "cover"
    /\ cv.via = "entity"
    /\ cv.pc = "done"
    /\ cv' = NoCover
    /\ sv' = NoCall
    /\ app' = "idle"
    /\ UNCHANGED <<sessionVars, shadowVars, gatewayVars, mode, ha, calls,
                   engineVars, ghostVars, rx>>
    /\ UNCHANGED wireVars

\* coordinator._apply_changes (coordinator.py lines 410-475): the change
\* stream of the watch process brings coordinator.data up to the snapshots
HaUpdate ==
    /\ mode = "entity"
    /\ ha # [up |-> Cell(shown, UpRelay), down |-> Cell(shown, DownRelay)]
    /\ ha' = [up |-> Cell(shown, UpRelay), down |-> Cell(shown, DownRelay)]
    /\ UNCHANGED <<sessionVars, shadowVars, gatewayVars, mode, app, cv, calls,
                   engineVars, ghostVars, rx, sv>>
    /\ UNCHANGED wireVars

\* ------------------------------------------------------------------ Spec
\* __init__ (lines 253-311): no command queued, no command in flight
EngineIdle ==
    /\ processing = FALSE
    /\ queue = << >>
    /\ lock = "none"
    /\ cq = "idle"
    /\ ka = LoopIdle
    /\ sp = LoopIdle

\* nothing received yet, no public key bytes held (lines 95, 287)
WireIdle ==
    /\ keyBytes = << >>
    /\ recvBuffer = << >>
    /\ io = [step |-> "none"]

InitMatrices ==
    {mx \in Matrix :
        \A m \in Modules, o \in Outputs :
            [module |-> m, output |-> o] \notin {UpRelay, DownRelay}
                => mx[m][o] = OFF}

Init ==
    /\ connected = TRUE
    /\ authenticated = TRUE
    /\ publicKey = 1
    /\ secure = TRUE
    /\ latestSnapshot = NoSnapshot
    /\ pendingWrites = EmptyMap
    /\ EngineIdle
    /\ bus \in InitMatrices
    /\ shown = bus
    /\ rx = [pc |-> "recv"]
    /\ sv = NoCall
    /\ mode \in {"client", "entity"}
    /\ app = "idle"
    /\ cv = NoCover
    /\ ha = [up |-> Cell(bus, UpRelay), down |-> Cell(bus, DownRelay)]
    /\ lastTx = NoTx
    /\ commanded = [m \in Modules |-> EmptyMap]
    /\ calls = 0
    /\ snapshots = 0
    /\ WireIdle

Next ==
    \/ SvEnter \/ SvRead \/ SvCommit
    \/ RxInstall \/ RxClear \/ RxDispatch \/ RxNext
    \/ ServerReflect
    \/ CallSetValue \/ ReturnSetValue
    \/ CliCoverStart \/ CliCoverStep2 \/ CliCoverReturn \/ CoverDone
    \/ EntCoverStart \/ EntExecFirst \/ EntExecSecond \/ EntCoverDone
    \/ HaUpdate

Spec == Init /\ [][Next]_vars

\* ------------------------------------------------ persistent mode threads
\* queue_command (lines 1660-1679)
QueueCommand ==
    /\ mode = "engine"
    /\ calls < MaxCalls
    /\ \E d \in Devices, on \in BOOLEAN :
          queue' = Append(queue, [device |-> d, on |-> on])
    /\ calls' = calls + 1
    /\ UNCHANGED <<sessionVars, shadowVars, gatewayVars, mode, app, cv, ha,
                   processing, lock, cq, ka, sp, ghostVars, rx, sv>>
    /\ UNCHANGED wireVars

\* _command_queue_loop: take a command and, when the session is up, raise
\* the processing flag and call it (lines 1565-1581); otherwise the command
\* is only marked done (line 1594)
CqDequeue ==
    /\ cq = "idle"
    /\ queue # << >>
    /\ queue' = Tail(queue)
    /\ IF connected /\ authenticated
       THEN /\ processing' = TRUE
            /\ cq' = "run"
            /\ sv' = NewCall(Head(queue).device, Head(queue).on)
       ELSE UNCHANGED <<processing, cq, sv>>
    /\ UNCHANGED <<sessionVars, shadowVars, gatewayVars, callerVars, lock,
                   ka, sp, ghostVars, rx>>
    /\ UNCHANGED wireVars

\* _command_queue_loop: the command returned and the thread sleeps 100 ms
\* (line 1584), or it raised and the finally block runs at once (1586-1591)
CqAfterCommand ==
    /\ cq = "run"
    /\ sv.pc \in {"ok", "raised"}
    /\ sv' = NoCall
    /\ IF sv.pc = "ok"
       THEN cq' = "sleep" /\ UNCHANGED processing
       ELSE cq' = "idle" /\ processing' = FALSE
    /\ UNCHANGED <<sessionVars, shadowVars, gatewayVars, callerVars, queue,
                   lock, ka, sp, ghostVars, rx>>
    /\ UNCHANGED wireVars

\* _command_queue_loop: finally: self._processing = False (line 1591)
CqFinish ==
    /\ cq = "sleep"
    /\ cq' = "idle"
    /\ processing' = FALSE
    /\ UNCHANGED <<sessionVars, shadowVars, gatewayVars, callerVars, queue,
                   lock, ka, sp, ghostVars, rx, sv>>
    /\ UNCHANGED wireVars

\* the test both background emitters make before sending (lines 1489-1491,
\* 1526-1528)
MayEmit == connected /\ authenticated /\ ~processing

\* _keepalive_loop: the tick passes the test (lines 1489-1491)
KaCheck ==
    /\ mode = "engine"
    /\ ka.pc = "wait"
    /\ MayEmit
    /\ ka' = [ka EXCEPT !.pc = "checked"]
    /\ UNCHANGED <<sessionVars, shadowVars, gatewayVars, callerVars,
                   processing, queue, lock, cq, sp, ghostVars, rx, sv>>
    /\ UNCHANGED wireVars

\* _keepalive_loop: with self._lock (line 1492)
KaAcquire ==
    /\ ka.pc = "checked"
    /\ lock = "none"
    /\ lock' = "ka"
    /\ ka' = [ka EXCEPT !.pc = "locked"]
    /\ UNCHANGED <<sessionVars, shadowVars, gatewayVars, callerVars,
                   processing, queue, cq, sp, ghostVars, rx, sv>>
    /\ UNCHANGED wireVars

\* _keepalive_loop: send_keepalive writes the frame (lines 1494, 1277-1283)
\* and the lock is released
KaSend ==
    /\ ka.pc = "locked"
    /\ connected
    /\ lock' = "none"
    /\ ka' = [pc |-> "sent", busy |-> processing]
    /\ UNCHANGED <<sessionVars, shadowVars, gatewayVars, callerVars,
                   processing, queue, cq, sp, ghostVars, rx, sv>>
    /\ UNCHANGED wireVars

\* _keepalive_loop: wait for the next interval (line 1501)
KaWait ==
    /\ ka.pc = "sent"
    /\ ka' = LoopIdle
    /\ UNCHANGED <<sessionVars, shadowVars, gatewayVars, callerVars,
                   processing, queue, lock, cq, sp, ghostVars, rx, sv>>
    /\ UNCHANGED wireVars

\* _status_poll_loop: the tick passes the test (lines 1526-1528)
SpCheck ==
    /\ mode = "engine"
    /\ sp.pc = "wait"
    /\ MayEmit
    /\ sp' = [sp EXCEPT !.pc = "checked"]
    /\ UNCHANGED <<sessionVars, shadowVars, gatewayVars, callerVars,
                   processing, queue, lock, cq, ka, ghostVars, rx, sv>>
    /\ UNCHANGED wireVars

\* _status_poll_loop: with self._lock (line 1529)
SpAcquire ==
    /\ sp.pc = "checked"
    /\ lock = "none"
    /\ lock' = "sp"
    /\ sp' = [sp EXCEPT !.pc = "locked"]
    /\ UNCHANGED <<sessionVars, shadowVars, gatewayVars, callerVars,
                   processing, queue, cq, ka, ghostVars, rx, sv>>
    /\ UNCHANGED wireVars

\* _status_poll_loop: request_snapshot writes 79 db (lines 1531, 1305-1314)
\* and the lock is released
SpSend ==
    /\ sp.pc = "locked"
    /\ connected
    /\ lock' = "none"
    /\ sp' = [pc |-> "sent", busy |-> processing]
    /\ UNCHANGED <<sessionVars, shadowVars, gatewayVars, callerVars,
                   processing, queue, cq, ka, ghostVars, rx, sv>>
    /\ UNCHANGED wireVars

\* _status_poll_loop: wait for the next interval (line 1537)
SpWait ==
    /\ sp.pc = "sent"
    /\ sp' = LoopIdle
    /\ UNCHANGED <<sessionVars, shadowVars, gatewayVars, callerVars,
                   processing, queue, lock, cq, ka, ghostVars, rx, sv>>
    /\ UNCHANGED wireVars

\* start_persistent_connection has connected, authenticated and started the
\* four threads (lines 1364-1443)
InitEngine ==
    /\ connected = TRUE
    /\ authenticated = TRUE
    /\ publicKey = 1
    /\ secure = TRUE
    /\ latestSnapshot = NoSnapshot
    /\ pendingWrites = EmptyMap
    /\ EngineIdle
    /\ bus = [m \in Modules |-> [o \in Outputs |-> OFF]]
    /\ shown = bus
    /\ rx = [pc |-> "recv"]
    /\ sv = NoCall
    /\ mode = "engine"
    /\ app = "idle"
    /\ cv = NoCover
    /\ ha = [up |-> OFF, down |-> OFF]
    /\ lastTx = NoTx
    /\ commanded = [m \in Modules |-> EmptyMap]
    /\ calls = 0
    /\ snapshots = 0
    /\ WireIdle

NextEngine ==
    \/ QueueCommand \/ CqDequeue \/ CqAfterCommand \/ CqFinish
    \/ SvEnter \/ SvRead \/ SvCommit
    \/ RxInstall \/ RxClear \/ RxDispatch \/ RxNext
    \/ ServerReflect
    \/ KaCheck \/ KaAcquire \/ KaSend \/ KaWait
    \/ SpCheck \/ SpAcquire \/ SpSend \/ SpWait

SpecEngine == InitEngine /\ [][NextEngine]_vars

\* ------------------------------------------------------------- session
Keys == 1..NumKeys

\* IPComEncryption.encrypt / decrypt (lines 128-147, 166-184): the keying a
\* message is processed with
Keying ==
    IF ~secure THEN "plain"
    ELSE IF publicKey # 0 THEN "dual" ELSE "single"

\* the gateway reads the first message of a socket with PRIVATE_KEY2 only
GatewayReadsConnect(keying) == keying = "single"

\* authenticate (lines 424-589): the ConnectRequest is encrypted with the
\* cipher as it stands and written; a 135 byte reply that decrypts to command
\* 0x01 installs the public key and sets _authenticated.  Every other
\* outcome returns False and leaves the socket as it is.
Authenticate ==
    /\ lastTx' = [kind |-> "connect", auth |-> authenticated,
                  keying |-> Keying]
    /\ \/ /\ GatewayReadsConnect(Keying)
          /\ \E k \in Keys : publicKey' = k
          /\ authenticated' = TRUE
       \/ UNCHANGED <<authenticated, publicKey>>
    /\ UNCHANGED <<connected, secure>>

\* start_persistent_connection: connect() (lines 1388-1390, 313-388)
StartConnect ==
    /\ mode = "session"
    /\ app = "start"
    /\ ~connected
    /\ connected' = TRUE
    /\ app' = "auth"
    /\ UNCHANGED <<authenticated, publicKey, secure, shadowVars, gatewayVars,
                   mode, cv, ha, calls, engineVars, ghostVars, rx, sv>>
    /\ UNCHANGED wireVars

\* start_persistent_connection: authenticate(), and disconnect() when it
\* fails (lines 1392-1395); on success the receive thread is started
StartAuthenticate ==
    /\ app = "auth"
    /\ \E out \in {"ok", "failed"} :
          IF out = "ok"
          THEN /\ GatewayReadsConnect(Keying)
               /\ \E k \in Keys : publicKey' = k
               /\ authenticated' = TRUE
               /\ lastTx' = [kind |-> "connect", auth |-> authenticated,
                             keying |-> Keying]
               /\ app' = "idle"
               /\ UNCHANGED <<connected, secure>>
          ELSE /\ lastTx' = [kind |-> "disconnect", auth |-> authenticated,
                             keying |-> Keying]
               /\ CleanupSocket
               /\ app' = "start"
    /\ UNCHANGED <<shadowVars, gatewayVars, mode, cv, ha, calls, engineVars,
                   commanded, snapshots, rx, sv>>
    /\ UNCHANGED wireVars

\* persistent mode is on and the receive thread runs
Persistent == mode = "session" /\ app \in {"idle", "device"}

\* _receive_loop: recv() returns empty or raises (lines 748-778)
RxClosed ==
    /\ Persistent
    /\ rx.pc = "recv"
    /\ connected
    /\ CleanupSocket
    /\ UNCHANGED <<shadowVars, gatewayVars, callerVars, engineVars,
                   ghostVars, rx, sv>>
    /\ UNCHANGED wireVars

\* _persistent_receive_loop: the socket is down, connect() (line 1626)
RxConnect ==
    /\ Persistent
    /\ rx.pc = "recv"
    /\ ~connected
    /\ connected' = TRUE
    /\ rx' = [rx EXCEPT !.pc = "auth"]
    /\ UNCHANGED <<authenticated, publicKey, secure, shadowVars, gatewayVars,
                   callerVars, engineVars, ghostVars, sv>>
    /\ UNCHANGED wireVars

\* _persistent_receive_loop: `and self.authenticate()` (line 1626); whether
\* it succeeds or not the loop goes on to receive, because _connected is set
\* (lines 1629-1637)
RxAuthenticate ==
    /\ rx.pc = "auth"
    /\ Authenticate
    /\ rx' = [rx EXCEPT !.pc = "recv"]
    /\ UNCHANGED <<shadowVars, gatewayVars, callerVars, engineVars,
                   commanded, snapshots, sv>>
    /\ UNCHANGED wireVars

\* send_keepalive (lines 1277-1283) called on the client
ApiKeepalive ==
    /\ Persistent
    /\ app = "idle"
    /\ calls < MaxCalls
    /\ connected
    /\ lastTx' = [kind |-> "keepalive", auth |-> authenticated,
                  keying |-> Keying]
    /\ calls' = calls + 1
    /\ UNCHANGED <<sessionVars, shadowVars, gatewayVars, mode, app, cv, ha,
                   engineVars, commanded, snapshots, rx, sv>>
    /\ UNCHANGED wireVars

\* request_snapshot (lines 1305-1314) called on the client or by the polling
\* thread of start_snapshot_polling (lines 1339-1344): 79 db is written as is
ApiRequestSnapshot ==
    /\ Persistent
    /\ app = "idle"
    /\ calls < MaxCalls
    /\ connected
    /\ lastTx' = [kind |-> "status", auth |-> authenticated,
                  keying |-> "plain"]
    /\ calls' = calls + 1
    /\ UNCHANGED <<sessionVars, shadowVars, gatewayVars, mode, app, cv, ha,
                   engineVars, commanded, snapshots, rx, sv>>
    /\ UNCHANGED wireVars

\* a client as __init__ leaves it (lines 253-311, 93-96)
InitSession ==
    /\ connected = FALSE
    /\ authenticated = FALSE
    /\ publicKey = 0
    /\ secure = TRUE
    /\ latestSnapshot = NoSnapshot
    /\ pendingWrites = EmptyMap
    /\ EngineIdle
    /\ bus = [m \in Modules |-> [o \in Outputs |-> OFF]]
    /\ shown = bus
    /\ rx = [pc |-> "recv"]
    /\ sv = NoCall
    /\ mode = "session"
    /\ app = "start"
    /\ cv = NoCover
    /\ ha = [up |-> OFF, down |-> OFF]
    /\ lastTx = NoTx
    /\ commanded = [m \in Modules |-> EmptyMap]
    /\ calls = 0
    /\ snapshots = 0
    /\ WireIdle

NextSession ==
    \/ StartConnect \/ StartAuthenticate
    \/ RxClosed \/ RxConnect \/ RxAuthenticate
    \/ RxInstall \/ RxClear \/ RxDispatch \/ RxNext
    \/ CallSetValue \/ SvEnter \/ SvRead \/ SvCommit \/ ReturnSetValue
    \/ ApiKeepalive \/ ApiRequestSnapshot
    \/ ServerReflect

SpecSession == InitSession /\ [][NextSession]_vars

\* ---------------------------------------------------------------- claims
\* the relay an open / close must have off before its ON write
OppositeRelay(action) == FirstStep(action).relay

\* a cover step has just emitted its write
CoverWrote == app = "cover" /\ sv.pc = "ok"

\* C1: every row set_value emits is the row it starts from (the module's
\* pending row if there is one, else the snapshot's row) with only the
\* target output replaced, and it still carries every value commanded for
\* the module since the last snapshot.
C1_CarryOver ==
    sv.pc = "ok" =>
        /\ sv.values = [sv.base EXCEPT ![sv.output] = sv.value]
        /\ \A o \in DOMAIN commanded[sv.module] :
              sv.values[o] = commanded[sv.module][o]

\* C1 witness: a second call on a module emitted a row that carries the
\* value of an earlier call, which the snapshot does not show.
C1_Witness ==
    /\ sv.pc = "ok"
    /\ sv.member
    /\ \E o \in Outputs \ {sv.output} :
          /\ o \in DOMAIN commanded[sv.module]
          /\ sv.values[o] # latestSnapshot[sv.module][o]

\* C2: a cover action entered with at most one relay on never emits a row in
\* which the up relay and the down relay are both on.
C2_NoBothRelaysOn ==
    (CoverWrote /\ ~(cv.entryUp > 0 /\ cv.entryDown > 0)) =>
        ~(sv.values[UpRelay.output] > 0 /\ sv.values[DownRelay.output] > 0)

\* C3: an open or close entered with both relays on is executed as stop: it
\* is reported, no relay is commanded on, and a completed action has written
\* both relays to 0.
C3_ForbiddenEntryRunsStop ==
    (/\ app = "cover"
     /\ cv.request \in {"open", "close"}
     /\ cv.entryUp > 0
     /\ cv.entryDown > 0) =>
        /\ cv.action = "stop"
        /\ cv.warned
        /\ ~cv.onCmd
        /\ (cv.result = "ok" => cv.upOff /\ cv.downOff)

\* C4: the ON write of an open or close is never emitted while the opposite
\* relay is on and the action has not commanded it to 0 before.
C4_OffBeforeOn ==
    (CoverWrote /\ cv.action \in {"open", "close"} /\ sv.value > 0) =>
        \/ cv.offSent
        \/ Cell(sv.prior, OppositeRelay(cv.action)) = 0

C6_EmptyAfterDispatch ==
    rx.pc = "dispatched" => pendingWrites = EmptyMap

\* C7: set_value's read-modify-write of the shadow state is atomic with
\* respect to the receive thread: it never fails on a row cleared between
\* its membership test and its read, and it never stores a row computed
\* before a snapshot after that snapshot was accepted.
C7_AtomicReadModifyWrite ==
    /\ ~sv.keyError
    /\ (sv.pc \in {"ok", "raised"} => sv.storedAt <= sv.epoch)

\* C8: a keep-alive or status request is never written while the processing
\* flag is set.
C8_SilentWhileProcessing ==
    /\ (ka.pc = "sent" => ~ka.busy)
    /\ (sp.pc = "sent" => ~sp.busy)

\* C9: no keep-alive, status request or write command is written to a socket
\* that is not authenticated.
C9_NoTrafficUnlessAuthenticated ==
    /\ (sv.pc = "ok" => sv.auth)
    /\ (lastTx.kind \in {"keepalive", "status"} => lastTx.auth)

\* C10: a torn down session holds no public key, and every ConnectRequest is
\* encrypted with PRIVATE_KEY2 only.
C10_FreshSessionSingleKey ==
    /\ (~connected => publicKey = 0)
    /\ (lastTx.kind = "connect" => lastTx.keying = "single")

\* ------------------------------------------------------------------------
\* Byte level: the stream cipher (IPComEncryption)
\* ------------------------------------------------------------------------

PRIVATE_KEY ==
    <<
    83, 131, 251, 50, 127, 126, 154, 233, 1, 179, 127, 128, 6, 207, 57, 38,
    111, 93, 37, 91, 30, 38, 40, 196, 179, 120, 4, 172, 159, 11, 174, 157,
    87, 172, 78, 130, 14, 180, 186, 108, 39, 56, 10, 113, 155, 225, 247, 253,
    20, 204, 20, 13, 113, 229, 184, 247, 124, 203, 224, 11, 4, 120, 177, 127,
    43, 234, 133, 65, 149, 34, 24, 238, 6, 255, 121, 19, 38, 211, 8, 16,
    117, 4, 83, 108, 4, 253, 145, 243, 49, 147, 182, 20, 227, 83, 246, 206,
    110, 195, 116, 254, 206, 98, 1, 189, 141, 17, 38, 57, 10, 116, 81, 202,
    86, 66, 81, 213, 123, 142, 166, 71, 220, 127, 116, 9, 144, 143, 154, 242,
    12, 116, 129, 100, 16, 13, 100, 206, 84, 181, 120, 129, 165, 144, 54, 235,
    130, 201, 231, 92, 189, 63, 59, 41, 211, 47, 34, 110, 111, 36, 221, 251,
    221, 152, 0, 29, 75, 130, 206, 18, 209, 51, 41, 34, 79, 146, 249, 148,
    235, 18, 87, 47, 250, 48, 199, 241, 157, 114, 202, 141, 37, 235, 44, 61,
    227, 251, 204, 188, 84, 17, 83, 37, 226, 206, 120, 249, 220, 111, 232, 226,
    251, 65, 60, 237, 111, 154, 177, 243, 114, 120, 2, 204, 145, 61, 32, 127,
    190, 233, 83, 212, 251, 255, 110, 66, 177, 246, 94, 77, 20, 3, 180, 251,
    47, 83, 122, 188, 158, 167, 206, 142, 202, 8, 196, 123, 25, 161, 43, 127
    >>

PRIVATE_KEY2 ==
    <<
    12, 116, 129, 100, 16, 13, 100, 206, 84, 181, 120, 129, 165, 144, 54, 235,
    130, 201, 231, 92, 189, 63, 59, 41, 211, 47, 34, 110, 111, 36, 221, 251,
    221, 152, 0, 29, 75, 130, 206, 18, 209, 51, 41, 34, 79, 146, 249, 148,
    235, 18, 87, 47, 250, 48, 199, 241, 157, 114, 202, 141, 37, 235, 44, 61,
    227, 251, 204, 188, 84, 17, 83, 37, 226, 206, 120, 249, 220, 111, 232, 226,
    251, 65, 60, 237, 111, 154, 177, 243, 114, 120, 2, 204, 145, 61, 32, 127,
    190, 233, 83, 212, 251, 255, 110, 66, 177, 246, 94, 77, 20, 3, 180, 251,
    47, 83, 122, 188, 158, 167, 206, 142, 202, 8, 196, 123, 25, 161, 43, 127,
    83, 131, 251, 50, 127, 126, 154, 233, 1, 179, 127, 128, 6, 207, 57, 38,
    111, 93, 37, 91, 30, 38, 40, 196, 179, 120, 4, 172, 159, 11, 174, 157,
    87, 172, 78, 130, 14, 180, 186, 108, 39, 56, 10, 113, 155, 225, 247, 253,
    20, 204, 20, 13, 113, 229, 184, 247, 124, 203, 224, 11, 4, 120, 177, 127,
    43, 234, 133, 65, 149, 34, 24, 238, 6, 255, 121, 19, 38, 211, 8, 16,
    117, 4, 83, 108, 4, 253, 145, 243, 49, 147, 182, 20, 227, 83, 246, 206,
    110, 195, 116, 254, 206, 98, 1, 189, 141, 17, 38, 57, 10, 116, 81, 202,
    86, 66, 81, 213, 123, 142, 166, 71, 220, 127, 116, 9, 144, 143, 154, 242
    >>

PublicKeyLen == 128

\* number of sample public keys
NumPublicKeys == 2

\* longest sample buffer
MaxBufLen == 2

Bytes == 0..255

\* bitwise exclusive or of two naturals (Python's ^ on ints)
RECURSIVE XorBits(_, _)
XorBits(a, b) ==
    IF a = 0 THEN b
    ELSE IF b = 0 THEN a
    ELSE ((a + b) % 2) + 2 * XorBits(a \div 2, b \div 2)

\* the same on bytes, tabulated once
XorTable == [a \in Bytes |-> [b \in Bytes |-> XorBits(a, b)]]

Xor(a, b) ==
    IF a \in Bytes /\ b \in Bytes THEN XorTable[a][b] ELSE XorBits(a, b)

\* a 128-byte public key as a gateway could issue it
PublicKeyOf(k) == [i \in 1..PublicKeyLen |-> (k * 37 + i * (2 * k + 1)) % 256]

\* the key configurations: pass-through, single key, dual key
KeyConfigs ==
    {[secure |-> FALSE, key |-> << >>], [secure |-> TRUE, key |-> << >>]}
    \cup {[secure |-> TRUE, key |-> PublicKeyOf(k)] : k \in 1..NumPublicKeys}

\* the key byte combined with the data byte at table index idx
KeyByte(idx, key) ==
    IF key # << >>
    THEN Xor(PRIVATE_KEY[idx + 1], key[(idx % Len(key)) + 1])
    ELSE PRIVATE_KEY2[idx + 1]

IndexError == [ok |-> FALSE, bytes |-> << >>, ping_pong |-> 0]

\* the loop of encrypt over positions lo .. hi-1, entered with ping_pong:
\* the feedback is the byte just produced.  The range is split in halves
\* so that the evaluation stays shallow; the bytes are those of the loop.
RECURSIVE EncryptRange(_, _, _, _, _)
EncryptRange(data, key, lo, hi, ping_pong) ==
    IF lo >= hi THEN [ok |-> TRUE, bytes |-> << >>, ping_pong |-> ping_pong]
    ELSE IF hi = lo + 1
    THEN LET idx == Xor(ping_pong, lo)
         IN  IF idx >= Len(PRIVATE_KEY) THEN IndexError
             ELSE LET encrypted_byte == Xor(data[lo + 1], KeyByte(idx, key))
                  IN  [ok |-> TRUE, bytes |-> <<encrypted_byte>>,
                       ping_pong |-> encrypted_byte]
    ELSE LET mid == (lo + hi) \div 2
             left == EncryptRange(data, key, lo, mid, ping_pong)
         IN  IF ~left.ok THEN IndexError
             ELSE LET right == EncryptRange(data, key, mid, hi, left.ping_pong)
                  IN  IF ~right.ok THEN IndexError
                      ELSE [ok |-> TRUE, bytes |-> left.bytes \o right.bytes,
                            ping_pong |-> right.ping_pong]

encrypt(data, cfg) ==
    IF ~cfg.secure THEN [ok |-> TRUE, bytes |-> data]
    ELSE LET r == EncryptRange(data, cfg.key, 0, Len(data), 0)
         IN  [ok |-> r.ok, bytes |-> r.bytes]

\* the loop of decrypt: the feedback is the byte just consumed, so ping_pong
\* on entering position pos is data[pos - 1] (0 at the first position) and
\* the table index at pos is that byte ^ pos
DecryptIndex(data, pos) ==
    Xor(IF pos = 0 THEN 0 ELSE data[pos], pos)

decrypt(data, cfg) ==
    IF ~cfg.secure THEN [ok |-> TRUE, bytes |-> data]
    ELSE IF \E pos \in 0..(Len(data) - 1) :
                DecryptIndex(data, pos) >= Len(PRIVATE_KEY)
    THEN [ok |-> FALSE, bytes |-> << >>]
    ELSE [ok |-> TRUE,
          bytes |-> [i \in 1..Len(data) |->
                        Xor(data[i], KeyByte(DecryptIndex(data, i - 1), cfg.key))]]

\* the cipher of the running client
CipherState == [secure |-> secure, key |-> keyBytes]

\* bytes that matter to the parser and the cipher: zero, one, the frame
\* start 0x23, the snapshot prefix 0x79 0xDB, and all ones
ByteSamples == {0, 1, 35, 121, 219, 255}

RECURSIVE SeqsUpTo(_, _)
SeqsUpTo(S, n) ==
    IF n = 0 THEN {<< >>}
    ELSE LET shorter == SeqsUpTo(S, n - 1)
         IN  shorter \cup {Append(s, b) : s \in {t \in shorter : Len(t) = n - 1},
                                          b \in S}

\* buffers as long as the key tables, and one byte longer
LongBuffers ==
    {[i \in 1..n |-> (i * 7) % 256] : n \in {Len(PRIVATE_KEY), Len(PRIVATE_KEY) + 1}}

Buffers == SeqsUpTo(ByteSamples, MaxBufLen) \cup LongBuffers

\* everything but the cipher and the bytes under test is at rest
BenchIdle ==
    /\ connected = FALSE
    /\ authenticated = FALSE
    /\ latestSnapshot = NoSnapshot
    /\ pendingWrites = EmptyMap
    /\ EngineIdle
    /\ bus = [m \in Modules |-> [o \in Outputs |-> OFF]]
    /\ shown = bus
    /\ rx = [pc |-> "recv"]
    /\ sv = NoCall
    /\ app = "idle"
    /\ cv = NoCover
    /\ ha = [up |-> OFF, down |-> OFF]
    /\ lastTx = NoTx
    /\ commanded = [m \in Modules |-> EmptyMap]
    /\ calls = 0
    /\ snapshots = 0
    /\ recvBuffer = << >>

\* ------------------------------------------------- encrypt and decrypt
InitCipher ==
    /\ BenchIdle
    /\ mode = "cipher"
    /\ \E cfg \in KeyConfigs :
        /\ secure = cfg.secure
        /\ keyBytes = cfg.key
        /\ publicKey = IF cfg.key = << >> THEN 0 ELSE 1
    /\ \E m \in Buffers :
        io = [step |-> "cipher", m |-> m, cur |-> m, ok |-> TRUE,
              trail |-> << >>]

\* IPComEncryption.encrypt applied to the current bytes
CallEncrypt ==
    /\ mode = "cipher"
    /\ io.ok
    /\ Len(io.trail) < 2
    /\ LET r == encrypt(io.cur, CipherState)
       IN  io' = [io EXCEPT !.cur = r.bytes, !.ok = r.ok,
                            !.trail = Append(@, "encrypt")]
    /\ UNCHANGED <<sessionVars, shadowVars, gatewayVars, callerVars,
                   engineVars, ghostVars, keyBytes, recvBuffer, rx, sv>>

\* IPComEncryption.decrypt applied to the current bytes
CallDecrypt ==
    /\ mode = "cipher"
    /\ io.ok
    /\ Len(io.trail) < 2
    /\ LET r == decrypt(io.cur, CipherState)
       IN  io' = [io EXCEPT !.cur = r.bytes, !.ok = r.ok,
                            !.trail = Append(@, "decrypt")]
    /\ UNCHANGED <<sessionVars, shadowVars, gatewayVars, callerVars,
                   engineVars, ghostVars, keyBytes, recvBuffer, rx, sv>>

NextCipher == CallEncrypt \/ CallDecrypt

SpecCipher == InitCipher /\ [][NextCipher]_vars

\* C18: in every key configuration, decrypting what encrypt produced, and
\* encrypting what decrypt produced, gives back the original buffer,
\* whatever its length.
C18_RoundTrip ==
    (mode = "cipher" /\ Len(io.trail) > 0) =>
        /\ io.ok
        /\ (io.trail \in {<<"encrypt", "decrypt">>, <<"decrypt", "encrypt">>}
                => io.cur = io.m)

\* ------------------------------------------------- the handshake, in bytes
ReplyLen == 135

\* first byte of a ConnectResponse that grants the session
CMD_CONNECT_RESPONSE == 1

\* first two bytes of the non-secure offer
CMD_NONSECURE_CONNECT == 14
NonSecureVersion == 101

SingleKey == [secure |-> TRUE, key |-> << >>]

Zeros(n) == [i \in 1..n |-> 0]

\* the replies a gateway can write while the client waits in authenticate:
\* it encrypts with PRIVATE_KEY2 only.  issued is the public key it put in.
GrantReply(k) ==
    [fault |-> "none", issued |-> PublicKeyOf(k),
     wire |-> encrypt(<<CMD_CONNECT_RESPONSE>> \o Zeros(6) \o PublicKeyOf(k),
                      SingleKey).bytes]

NonSecureReply ==
    [fault |-> "none", issued |-> << >>,
     wire |-> encrypt(<<CMD_NONSECURE_CONNECT, NonSecureVersion>>
                        \o Zeros(ReplyLen - 2), SingleKey).bytes]

\* a 135-byte reply with another command id (2 = disconnect)
OtherReply ==
    [fault |-> "none", issued |-> << >>,
     wire |-> encrypt(<<2>> \o Zeros(ReplyLen - 1), SingleKey).bytes]

\* the 2-byte nack 7E E3, and a reply cut short by the gateway closing
NackReply == [fault |-> "none", issued |-> << >>, wire |-> <<126, 227>>]
ShortReply ==
    [fault |-> "none", issued |-> << >>,
     wire |-> SubSeq(GrantReply(1).wire, 1, ReplyLen - 1)]

\* recv raising: socket.timeout, or ConnectionResetError / OSError
Faults ==
    {[fault |-> f, issued |-> << >>, wire |-> << >>] : f \in {"timeout", "error"}}

RefusedReplies == {OtherReply, NackReply, ShortReply} \cup Faults

\* a gateway that could read the ConnectRequest may grant or offer; one that
\* could not only refuses
Replies(readable) ==
    IF readable
    THEN {GrantReply(k) : k \in 1..NumPublicKeys} \cup {NonSecureReply}
            \cup RefusedReplies
    ELSE RefusedReplies

\* a public key extracted one byte early
AuthenticateReplyShifted(reply) ==
    IF reply.fault # "none" THEN [ok |-> FALSE, key |-> keyBytes]
    ELSE IF Len(reply.wire) # ReplyLen THEN [ok |-> FALSE, key |-> keyBytes]
    ELSE LET decrypted == decrypt(reply.wire, CipherState)
         IN  IF ~decrypted.ok THEN [ok |-> FALSE, key |-> keyBytes]
             ELSE IF decrypted.bytes[1] # CMD_CONNECT_RESPONSE
             THEN [ok |-> FALSE, key |-> keyBytes]
             ELSE [ok |-> TRUE, key |-> SubSeq(decrypted.bytes, 7, ReplyLen - 1)]

\* authenticate from the reply on (lines 487-589): what it returns and the
\* public key the cipher holds afterwards
AuthenticateReply(reply) ==
    IF reply.fault # "none" THEN [ok |-> FALSE, key |-> keyBytes]
    ELSE IF Len(reply.wire) # ReplyLen THEN [ok |-> FALSE, key |-> keyBytes]
    ELSE LET decrypted == decrypt(reply.wire, CipherState)
         IN  IF ~decrypted.ok THEN [ok |-> FALSE, key |-> keyBytes]
             ELSE IF decrypted.bytes[1] # CMD_CONNECT_RESPONSE
             THEN [ok |-> FALSE, key |-> keyBytes]
             ELSE [ok |-> TRUE, key |-> SubSeq(decrypted.bytes, 8, ReplyLen)]

NoMsg == [dir |-> "none", plain |-> << >>, wire |-> << >>, got |-> << >>]

NoAttempt ==
    [step |-> "handshake", via |-> "none", reply |-> << >>, fault |-> "none",
     entry |-> "none", ok |-> FALSE, issued |-> << >>, msg |-> NoMsg]

\* the ghost record of one call of authenticate
Attempt(via, reply, r) ==
    [step |-> "handshake", via |-> via, reply |-> reply.wire,
     fault |-> reply.fault, entry |-> Keying, ok |-> r.ok,
     issued |-> reply.issued, msg |-> NoMsg]

\* number of sample messages
NumPayloads == 3

\* messages sent and received once the socket is up: n + 1 bytes each
Payloads == {[i \in 1..(n + 1) |-> (35 * i + 86 * n) % 256] : n \in 1..NumPayloads}

InitHandshake ==
    /\ BenchIdle
    /\ mode = "handshake"
    /\ secure = TRUE
    /\ publicKey = 0
    /\ keyBytes = << >>
    /\ io = NoAttempt

\* start_persistent_connection (lines 1386-1397): connect(), then
\* authenticate(), and disconnect() when it returns False
HsStart ==
    /\ mode = "handshake"
    /\ io.via = "none"
    /\ \E reply \in Replies(GatewayReadsConnect(Keying)) :
        LET r == AuthenticateReply(reply)
        IN  /\ keyBytes' = r.key
            /\ publicKey' = IF r.key # << >> THEN 1 ELSE 0
            /\ authenticated' = r.ok
            /\ connected' = r.ok
            /\ io' = Attempt("start", reply, r)
            /\ lastTx' = [kind |-> IF r.ok THEN "connect" ELSE "disconnect",
                          auth |-> FALSE, keying |-> Keying]
    /\ UNCHANGED <<secure, shadowVars, gatewayVars, callerVars, engineVars,
                   commanded, snapshots, recvBuffer, rx, sv>>

\* _receive_loop: recv() returns empty or raises, _cleanup_socket
\* (lines 748-778)
HsClosed ==
    /\ mode = "handshake"
    /\ connected
    /\ CleanupSocket
    /\ UNCHANGED <<shadowVars, gatewayVars, callerVars, engineVars, ghostVars,
                   wireVars, rx, sv>>

\* _persistent_receive_loop (lines 1621-1634): connect() and authenticate();
\* when authenticate returns False the loop backs off and goes on
HsReconnect ==
    /\ mode = "handshake"
    /\ io.via # "none"
    /\ io.via = "start" => io.ok
    /\ ~connected
    /\ \E reply \in Replies(GatewayReadsConnect(Keying)) :
        LET r == AuthenticateReply(reply)
        IN  /\ keyBytes' = r.key
            /\ publicKey' = IF r.key # << >> THEN 1 ELSE 0
            /\ authenticated' = r.ok
            /\ connected' = TRUE
            /\ io' = Attempt("reconnect", reply, r)
            /\ lastTx' = [kind |-> "connect", auth |-> FALSE,
                          keying |-> Keying]
    /\ UNCHANGED <<secure, shadowVars, gatewayVars, callerVars, engineVars,
                   commanded, snapshots, recvBuffer, rx, sv>>

\* send_command (lines 1125-1146): the command is encrypted and written
HsSendCommand ==
    /\ mode = "handshake"
    /\ connected
    /\ \E plain \in Payloads :
        LET e == encrypt(plain, CipherState)
        IN  io' = [io EXCEPT !.msg = [dir |-> "tx", plain |-> plain,
                                      wire |-> e.bytes, got |-> << >>]]
    /\ lastTx' = [kind |-> "write", auth |-> authenticated, keying |-> Keying]
    /\ UNCHANGED <<sessionVars, shadowVars, gatewayVars, callerVars,
                   engineVars, commanded, snapshots, keyBytes, recvBuffer,
                   rx, sv>>

\* build_exo_outputs_request_command (cli/frame_builder.py, lines 82-92)
ExoOutputsRequest == <<5, 1>>

\* KEEPALIVE_BYTES = b'\x79\xdb' (line 1308)
KEEPALIVE_BYTES == <<121, 219>>

\* request_snapshot (lines 1288-1315): the two bytes are written as they are
HsRequestSnapshot ==
    /\ mode = "handshake"
    /\ connected
    /\ io' = [io EXCEPT !.msg = [dir |-> "status", plain |-> ExoOutputsRequest,
                                 wire |-> KEEPALIVE_BYTES, got |-> << >>]]
    /\ lastTx' = [kind |-> "status", auth |-> authenticated,
                  keying |-> "plain"]
    /\ UNCHANGED <<sessionVars, shadowVars, gatewayVars, callerVars,
                   engineVars, commanded, snapshots, keyBytes, recvBuffer,
                   rx, sv>>

\* the gateway writes a message under the key it issued and the client
\* decrypts it (_parse_frames, lines 827, 932)
HsReceive ==
    /\ mode = "handshake"
    /\ GatewayStreams
    /\ io.issued # << >>
    /\ \E plain \in Payloads :
        LET wire == encrypt(plain, [secure |-> TRUE, key |-> io.issued]).bytes
            d == decrypt(wire, CipherState)
        IN  io' = [io EXCEPT !.msg = [dir |-> "rx", plain |-> plain,
                                      wire |-> wire, got |-> d.bytes]]
    /\ UNCHANGED <<sessionVars, shadowVars, gatewayVars, callerVars,
                   engineVars, ghostVars, keyBytes, recvBuffer, rx, sv>>

NextHandshake ==
    \/ HsStart \/ HsClosed \/ HsReconnect \/ HsSendCommand \/ HsReceive
    \/ HsRequestSnapshot

SpecHandshake == InitHandshake /\ [][NextHandshake]_vars

\* what a reply is once decrypted with PRIVATE_KEY2 only
SingleKeyPlain(wire) == decrypt(wire, SingleKey).bytes

\* the call of authenticate on record got a 135-byte reply whose first bytes
\* decrypt to prefix
ReplyDecryptsTo(prefix) ==
    /\ mode = "handshake"
    /\ io.via # "none"
    /\ io.fault = "none"
    /\ Len(io.reply) = ReplyLen
    /\ SubSeq(SingleKeyPlain(io.reply), 1, Len(prefix)) = prefix

C12_NonSecureDegrades ==
    ReplyDecryptsTo(<<14, 101>>) =>
        /\ ~secure
        /\ connected
        /\ authenticated

\* C13: when authenticate has failed, at the initial start or at a
\* reconnection, the socket is closed and the client is disconnected.
C13_FailureTearsDown ==
    (mode = "handshake" /\ io.via # "none" /\ ~io.ok /\ io.msg.dir = "none")
        => (~connected /\ ~authenticated)

\* ------------------------------------------ frames and the stream parser
FRAME_START_BYTE == 35

\* a raw snapshot on the wire: the prefix 79 DB and 128 more bytes
SnapshotLen == 130
SnapshotPrefix == <<121, 219>>

CMD_EXO_OUTPUTS_RESPONSE == 5

\* _compute_checksum / _verify_checksum (lines 950-980): the XOR of the bytes
RECURSIVE XorRange(_, _, _)
XorRange(s, lo, hi) ==
    IF lo > hi THEN 0
    ELSE IF lo = hi THEN s[lo]
    ELSE LET mid == (lo + hi) \div 2
         IN  Xor(XorRange(s, lo, mid), XorRange(s, mid + 1, hi))

XorAll(s) == XorRange(s, 1, Len(s))

\* a frame whose checksum is never looked at
VerifyChecksumNever(data, checksum) == TRUE

\* _verify_checksum (lines 950-962)
VerifyChecksum(data, checksum) == XorAll(data) = checksum

\* a length field that counts the data bytes only
BuildFrameShort(to, from_, data) ==
    <<FRAME_START_BYTE, to, from_, Len(data)>> \o data \o <<XorAll(data)>>

\* Frame.to_bytes of the frame _build_frame makes (lines 1033-1055,
\* models.py 59-61)
BuildFrame(to, from_, data) ==
    <<FRAME_START_BYTE, to, from_, Len(data) + 1>> \o data \o <<XorAll(data)>>

\* send_frame (lines 1084-1098): the bytes handed to sendall
SendFrame(to, from_, data, cfg) ==
    BuildFrame(to, from_, encrypt(data, cfg).bytes)

\* bytearray.find: position of the first b in buf (from 1), 0 when absent
Find(buf, b) ==
    IF \E i \in 1..Len(buf) : buf[i] = b
    THEN CHOOSE i \in 1..Len(buf) :
            buf[i] = b /\ \A j \in 1..(i - 1) : buf[j] # b
    ELSE 0

StartsWithPrefix(buf) ==
    Len(buf) >= 2 /\ buf[1] = SnapshotPrefix[1] /\ buf[2] = SnapshotPrefix[2]

\* StateSnapshot.__post_init__ (models.py 110-117), seen through the modules
\* and outputs of this model; a raw shorter than 130 bytes gives no outputs
SnapshotOutputs(raw) ==
    IF Len(raw) >= SnapshotLen
    THEN [m \in Modules |-> [o \in Outputs |-> raw[2 + (m - 1) * 8 + o]]]
    ELSE [m \in Modules |-> << >>]

\* what the receive thread holds while it parses
ParserState ==
    [buf |-> recvBuffer, secure |-> secure, key |-> keyBytes,
     auth |-> authenticated, latest |-> latestSnapshot,
     pending |-> pendingWrites, frames |-> << >>, snaps |-> << >>]

\* _handle_connect_response (lines 631-678)
HandleConnectResponse(ps, data) ==
    IF Len(data) < 1 THEN ps
    ELSE IF Len(data) >= 2 /\ data[1] = CMD_NONSECURE_CONNECT
                           /\ data[2] = NonSecureVersion
    THEN [ps EXCEPT !.secure = FALSE, !.auth = TRUE]
    ELSE IF data[1] # 1 THEN ps
    ELSE IF Len(data) = 3 THEN [ps EXCEPT !.auth = TRUE]
    ELSE IF Len(data) >= ReplyLen
    THEN [ps EXCEPT !.key = SubSeq(data, 8, ReplyLen), !.auth = TRUE]
    ELSE [ps EXCEPT !.auth = TRUE]

\* _process_frame (lines 981-1004) with _handle_state_snapshot (1006-1031)
ProcessFrame(ps, frame) ==
    LET seen == [ps EXCEPT !.frames = Append(@, frame)]
    IN  IF frame.data = << >> THEN seen
        ELSE IF frame.data[1] = CMD_CONNECT_RESPONSE
        THEN HandleConnectResponse(seen, frame.data)
        ELSE IF frame.data[1] = CMD_EXO_OUTPUTS_RESPONSE
        THEN [seen EXCEPT !.latest = SnapshotOutputs(frame.data),
                          !.pending = EmptyMap,
                          !.snaps = Append(@, frame.data)]
        ELSE seen

\* _parse_frames (lines 812-948), each frame handed to _process_frame as it
\* is yielded (line 789)
RECURSIVE ParseFrames(_)
ParseFrames(ps) ==
    LET buf == ps.buf
    IN
    IF Len(buf) < 2 THEN ps
    ELSE IF Len(buf) >= SnapshotLen /\ StartsWithPrefix(buf)
    THEN LET decrypted == decrypt(SubSeq(buf, 1, SnapshotLen),
                                  [secure |-> ps.secure, key |-> ps.key])
             rest == SubSeq(buf, SnapshotLen + 1, Len(buf))
         IN  IF decrypted.ok
             THEN ParseFrames([ps EXCEPT
                     !.buf = rest,
                     !.latest = SnapshotOutputs(decrypted.bytes),
                     !.pending = EmptyMap,
                     !.snaps = Append(@, decrypted.bytes)])
             ELSE ParseFrames([ps EXCEPT !.buf = rest])
    ELSE IF Len(buf) < 5 THEN ps
    ELSE LET start_idx == Find(buf, FRAME_START_BYTE)
         IN
         IF start_idx = 0
         THEN IF StartsWithPrefix(buf) THEN ps ELSE [ps EXCEPT !.buf = << >>]
         ELSE LET cut == SubSeq(buf, start_idx, Len(buf))
              IN
              IF Len(cut) < 4 THEN [ps EXCEPT !.buf = cut]
              ELSE LET length == cut[4]
                       data_size == length - 1
                       total_size == 4 + data_size + 1
                   IN
                   IF Len(cut) < total_size THEN [ps EXCEPT !.buf = cut]
                   ELSE LET frame_bytes == SubSeq(cut, 1, total_size)
                            rest == SubSeq(cut, total_size + 1, Len(cut))
                            encrypted_data == SubSeq(frame_bytes, 5, 4 + data_size)
                            checksum == frame_bytes[5 + data_size]
                            next == [ps EXCEPT !.buf = rest]
                        IN
                        IF ~VerifyChecksum(encrypted_data, checksum)
                        THEN ParseFrames(next)
                        ELSE LET data == decrypt(encrypted_data,
                                           [secure |-> ps.secure, key |-> ps.key])
                             IN  IF ~data.ok \/ cut[1] # FRAME_START_BYTE
                                    \/ Len(data.bytes) + 1 # length
                                 THEN ParseFrames(next)
                                 ELSE ParseFrames(ProcessFrame(next,
                                        [start |-> cut[1], to |-> cut[2],
                                         from_ |-> cut[3], length |-> length,
                                         data |-> data.bytes,
                                         checksum |-> checksum,
                                         wire |-> encrypted_data]))

\* ------------------------------------------------------ the byte stream
\* number of sample snapshot bodies
NumBodies == 2

\* number of sample frame payloads
NumFrameData == 2

\* largest data field a frame can carry (the length field is one byte)
MaxFrameData == 254

\* chunk sizes recv may return
ChunkSizes == {1, 129, 130, 131, 260}

\* a raw snapshot as the gateway writes it; even bodies hold the byte 0x23
SnapshotWire(v) ==
    SnapshotPrefix \o [i \in 1..(SnapshotLen - 2) |->
        IF v % 2 = 0 /\ i = 2 + v THEN FRAME_START_BYTE ELSE (v * i) % 32]

RECURSIVE Concat(_)
Concat(ss) == IF ss = << >> THEN << >> ELSE Head(ss) \o Concat(Tail(ss))

\* an ExoOutputsResponse (command 5, version 1) that carries no matrix
ShortOutputsResponse == <<CMD_EXO_OUTPUTS_RESPONSE, 1>>

\* data fields handed to send_frame: empty, short, and of the largest size
FrameData ==
    {<< >>}
    \cup {[i \in 1..n |-> IF i = 1 THEN 3 ELSE (35 * i + 121 * n) % 256] :
            n \in 1..NumFrameData}
    \cup {[i \in 1..MaxFrameData |-> IF i = 1 THEN 3 ELSE (i * 7) % 256]}

Addresses == {0, 1}

\* a frame as written, and the same frame damaged on the way: its checksum
\* byte or its last data byte changed
Damage(wire, how) ==
    IF how = "checksum"
    THEN [wire EXCEPT ![Len(wire)] = Xor(@, 1)]
    ELSE IF how = "data" /\ Len(wire) > 5
    THEN [wire EXCEPT ![Len(wire) - 1] = Xor(@, 128)]
    ELSE IF how = "data"
    THEN [wire EXCEPT ![Len(wire)] = Xor(@, 128)]
    ELSE wire

\* the cipher of an established session
SessionKey == [secure |-> TRUE, key |-> PublicKeyOf(1)]

\* what the client holds when the bytes arrive: nothing yet, or a snapshot
\* and a row written since
Baselines ==
    {[latest |-> NoSnapshot, pending |-> EmptyMap],
     [latest |-> [m \in Modules |-> [o \in Outputs |-> OFF]],
      pending |-> StoreShadow(EmptyMap, 1, [o \in Outputs |-> ON])]}

\* what the gateway writes in one test: its messages in order.  k snapshots
\* back to back, consecutive ones with different bodies
SnapshotScripts ==
    {[i \in 1..k |-> [kind |-> "snapshot",
                      wire |-> SnapshotWire(((v + i - 2) % NumBodies) + 1)]] :
        v \in 1..NumBodies, k \in 1..MaxSnapshots}

FrameMsg(cfg, to, data, how) ==
    [kind |-> IF how = "none" THEN "frame" ELSE "damaged",
     to |-> to, from_ |-> 1 - to, data |-> data,
     wire |-> Damage(SendFrame(to, 1 - to, data, cfg), how)]

FrameScripts(cfg) ==
    {<<FrameMsg(cfg, to, data, "none")>> : to \in Addresses, data \in FrameData}
    \cup {<<FrameMsg(cfg, 1, d1, how), FrameMsg(cfg, 0, d2, "none")>> :
            d1 \in FrameData, d2 \in FrameData, how \in {"checksum", "data"}}

\* a framed reply of type 5 with fewer than 130 data bytes, on its own and
\* after a raw snapshot
OutputsScripts(cfg) ==
    LET reply == [kind |-> "outputs", to |-> 0, from_ |-> 1,
                  data |-> ShortOutputsResponse,
                  wire |-> SendFrame(0, 1, ShortOutputsResponse, cfg)]
    IN  {<<reply>>,
         <<[kind |-> "snapshot", wire |-> SnapshotWire(1)], reply>>}

InitParser ==
    /\ connected = TRUE
    /\ authenticated = TRUE
    /\ \E b \in Baselines :
        /\ latestSnapshot = b.latest
        /\ pendingWrites = b.pending
    /\ EngineIdle
    /\ bus = [m \in Modules |-> [o \in Outputs |-> OFF]]
    /\ shown = bus
    /\ rx = [pc |-> "recv"]
    /\ sv = NoCall
    /\ app = "idle"
    /\ cv = NoCover
    /\ ha = [up |-> OFF, down |-> OFF]
    /\ lastTx = NoTx
    /\ commanded = [m \in Modules |-> EmptyMap]
    /\ calls = 0
    /\ snapshots = 0
    /\ recvBuffer = << >>
    /\ mode = "parser"
    /\ publicKey = 1
    /\ secure = SessionKey.secure
    /\ keyBytes = SessionKey.key
    /\ \E script \in SnapshotScripts \cup FrameScripts(SessionKey)
                        \cup OutputsScripts(SessionKey) :
        io = [step |-> "parser", script |-> script,
              stream |-> Concat([i \in 1..Len(script) |-> script[i].wire]),
              fed |-> << >>, frames |-> << >>, snaps |-> << >>,
              before |-> [auth |-> TRUE, latest |-> latestSnapshot,
                          pending |-> pendingWrites, key |-> keyBytes,
                          secure |-> TRUE]]

\* _receive_loop (lines 732-789): recv returns the next bytes of the stream,
\* they are appended to the buffer, and every frame parsed is processed
Receive ==
    /\ mode = "parser"
    /\ connected
    /\ io.stream # << >>
    /\ \E n \in ChunkSizes :
        LET size == IF n < Len(io.stream) THEN n ELSE Len(io.stream)
            data == SubSeq(io.stream, 1, size)
            fed == recvBuffer \o data
        IN  \E ps \in {ParseFrames([ParserState EXCEPT !.buf = fed])} :
            /\ recvBuffer' = ps.buf
            /\ secure' = ps.secure
            /\ keyBytes' = ps.key
            /\ authenticated' = ps.auth
            /\ latestSnapshot' = ps.latest
            /\ pendingWrites' = ps.pending
            /\ snapshots' = snapshots + Len(ps.snaps)
            /\ io' = [io EXCEPT
                        !.stream = SubSeq(io.stream, size + 1, Len(io.stream)),
                        !.fed = fed,
                        !.frames = @ \o ps.frames,
                        !.snaps = @ \o ps.snaps,
                        !.before = [auth |-> authenticated,
                                    latest |-> latestSnapshot,
                                    pending |-> pendingWrites,
                                    key |-> keyBytes, secure |-> secure]]
    /\ UNCHANGED <<connected, publicKey, gatewayVars, callerVars, engineVars,
                   lastTx, commanded, rx, sv>>

NextParser == Receive

SpecParser == InitParser /\ [][NextParser]_vars

\* the frames the receive thread has dispatched, as (to, from, data)
Dispatched == [i \in 1..Len(io.frames) |->
                 [to |-> io.frames[i].to, from_ |-> io.frames[i].from_,
                  data |-> io.frames[i].data]]

\* the undamaged frames of the script, in order
Written ==
    LET good == SelectSeq(io.script, LAMBDA m : m.kind = "frame")
    IN  [i \in 1..Len(good) |->
            [to |-> good[i].to, from_ |-> good[i].from_, data |-> good[i].data]]

OnlySnapshots == \A i \in 1..Len(io.script) : io.script[i].kind = "snapshot"
OnlyFrames ==
    \A i \in 1..Len(io.script) : io.script[i].kind \in {"frame", "damaged"}

\* C14: when the buffer handed to the parser begins 79 DB and holds fewer
\* than 130 bytes, the parser leaves it as it is, whatever the bytes are.
C14_PartialSnapshotUntouched ==
    (mode = "parser" /\ StartsWithPrefix(io.fed) /\ Len(io.fed) < SnapshotLen)
        => recvBuffer = io.fed

\* C15: once k back-to-back raw snapshots have been received, in whatever
\* chunks, exactly those k snapshots have been accepted, in order.
C15_SnapshotsSurviveChunking ==
    (mode = "parser" /\ OnlySnapshots /\ io.stream = << >>) =>
        io.snaps = [i \in 1..Len(io.script) |->
                        decrypt(io.script[i].wire, SessionKey).bytes]

\* C16: every frame dispatched starts with 0x23, has length = len(data) + 1
\* and a checksum equal to the XOR of its ciphertext; a frame with a bad
\* checksum is dropped, nothing is dispatched for it and no state changes,
\* and the frames after it are still parsed.
C16_OnlyValidFramesDispatched ==
    mode = "parser" =>
        /\ \A i \in 1..Len(io.frames) :
            /\ io.frames[i].start = 35
            /\ io.frames[i].length = Len(io.frames[i].data) + 1
            /\ io.frames[i].checksum = XorAll(io.frames[i].wire)
        /\ OnlyFrames =>
            /\ Len(Dispatched) <= Len(Written)
            /\ Dispatched = SubSeq(Written, 1, Len(Dispatched))
            /\ io.stream = << >> =>
                  (Dispatched = Written /\ recvBuffer = << >>)
            /\ [latest |-> latestSnapshot, pending |-> pendingWrites]
                    \in Baselines
            /\ io.snaps = << >>
            /\ authenticated /\ secure /\ keyBytes = SessionKey.key

\* a damaged frame was received and dropped, and the frame after it was
\* dispatched
C16_Witness ==
    /\ mode = "parser"
    /\ io.stream = << >>
    /\ Len(io.script) = 2
    /\ io.script[1].kind = "damaged"
    /\ Len(io.script[1].data) > 0
    /\ Len(io.frames) = 1
    /\ io.frames[1].data = io.script[2].data
    /\ pendingWrites # EmptyMap

\* C17: the bytes send_frame writes for (to, from, data), data of 0 to 254
\* bytes, parsed under the same cipher state, give exactly one frame with
\* that to, from and data.
C17_SendFrameParsesBack ==
    (mode = "parser" /\ Len(io.script) = 1 /\ io.script[1].kind = "frame"
        /\ io.stream = << >>) =>
        /\ Dispatched = <<[to |-> io.script[1].to, from_ |-> io.script[1].from_,
                           data |-> io.script[1].data]>>
        /\ recvBuffer = << >>

\* a frame with the largest data field went through, and an empty one
C17_Witness ==
    /\ mode = "parser"
    /\ Len(io.script) = 1
    /\ io.script[1].kind = "frame"
    /\ io.stream = << >>
    /\ Len(io.frames) = 1
    /\ Len(io.frames[1].data) = MaxFrameData
    /\ io.frames[1].data = io.script[1].data
    /\ io.frames[1].wire # io.frames[1].data

\* ------------------------------------------- arguments of the write API
\* the arguments tried: the limits of each range and their neighbours
ArgModules == {0, 1, 16, 17}
ArgOutputs == {0, 1, 8, 9}
ArgValues == {-1, 0, 255, 256}

InRange(module, output, value) ==
    module \in 1..16 /\ output \in 1..8 /\ value \in 0..255

\* a snapshot of all 16 modules and 8 outputs
FullSnapshot == [m \in 1..16 |-> [o \in 1..8 |-> OFF]]

\* StateSnapshot.get_value (models.py 120-139)
SnapshotGet(outputs, module, output) ==
    IF module \notin 1..16 \/ output \notin 1..8
    THEN [ok |-> FALSE, value |-> 0]
    ELSE [ok |-> TRUE, value |-> outputs[module][output]]

\* StateSnapshot.set_value (models.py 141-160)
SnapshotSet(outputs, module, output, value) ==
    IF module \notin 1..16 \/ output \notin 1..8 \/ value \notin 0..255
    THEN [ok |-> FALSE, outputs |-> outputs]
    ELSE [ok |-> TRUE,
          outputs |-> [outputs EXCEPT ![module][output] = value]]

\* the state a call found
Held == [latest |-> latestSnapshot, pending |-> pendingWrites, bus |-> bus,
         commanded |-> commanded]

InitArgs ==
    /\ connected \in BOOLEAN
    /\ authenticated = connected
    /\ publicKey = 1
    /\ secure = TRUE
    /\ latestSnapshot \in {NoSnapshot, FullSnapshot}
    /\ pendingWrites = EmptyMap
    /\ EngineIdle
    /\ bus = FullSnapshot
    /\ shown = bus
    /\ rx = [pc |-> "recv"]
    /\ sv = NoCall
    /\ mode = "args"
    /\ app = "idle"
    /\ cv = NoCover
    /\ ha = [up |-> OFF, down |-> OFF]
    /\ lastTx = NoTx
    /\ commanded = [m \in 1..16 |-> EmptyMap]
    /\ calls = 0
    /\ snapshots = IF latestSnapshot = NoSnapshot THEN 0 ELSE 1
    /\ keyBytes = << >>
    /\ recvBuffer = << >>
    /\ io = [step |-> "args", op |-> "none", module |-> 0, output |-> 0,
             value |-> 0, ok |-> FALSE, got |-> 0, held |-> Held]

\* IPComClient.set_value called with any arguments (lines 1207-1275)
CallSetValueArgs ==
    /\ mode = "args"
    /\ app = "idle"
    /\ calls < MaxCalls
    /\ \E module \in ArgModules, output \in ArgOutputs, value \in ArgValues :
        /\ sv' = [NoCall EXCEPT !.pc = "enter", !.module = module,
                                !.output = output, !.value = value]
        /\ io' = [io EXCEPT !.op = "set_value", !.module = module,
                            !.output = output, !.value = value,
                            !.ok = FALSE, !.got = 0, !.held = Held]
    /\ app' = "device"
    /\ calls' = calls + 1
    /\ UNCHANGED <<sessionVars, shadowVars, gatewayVars, mode, cv, ha,
                   engineVars, ghostVars, keyBytes, recvBuffer, rx>>

\* get_latest_snapshot().get_value(module, output) (models.py 120-139)
CallSnapshotGet ==
    /\ mode = "args"
    /\ app = "idle"
    /\ calls < MaxCalls
    /\ latestSnapshot # NoSnapshot
    /\ \E module \in ArgModules, output \in ArgOutputs :
        LET r == SnapshotGet(latestSnapshot, module, output)
        IN  io' = [io EXCEPT !.op = "get", !.module = module,
                             !.output = output, !.value = 0, !.ok = r.ok,
                             !.got = r.value, !.held = Held]
    /\ calls' = calls + 1
    /\ UNCHANGED <<sessionVars, shadowVars, gatewayVars, mode, app, cv, ha,
                   engineVars, ghostVars, keyBytes, recvBuffer, rx, sv>>

\* get_latest_snapshot().set_value(module, output, value) (models.py 141-160)
CallSnapshotSet ==
    /\ mode = "args"
    /\ app = "idle"
    /\ calls < MaxCalls
    /\ latestSnapshot # NoSnapshot
    /\ \E module \in ArgModules, output \in ArgOutputs, value \in ArgValues :
        LET r == SnapshotSet(latestSnapshot, module, output, value)
        IN  /\ latestSnapshot' = r.outputs
            /\ io' = [io EXCEPT !.op = "set", !.module = module,
                                !.output = output, !.value = value,
                                !.ok = r.ok, !.got = 0, !.held = Held]
    /\ calls' = calls + 1
    /\ UNCHANGED <<sessionVars, pendingWrites, gatewayVars, mode, app, cv, ha,
                   engineVars, ghostVars, keyBytes, recvBuffer, rx, sv>>

\* ------------------------------------------------ the deprecated writer
\* frame_builder.set_output (frame_builder.py 133-136): a row of zeros with
\* the target output set
ZeroedRow(output, value) == [o \in 1..8 |-> IF o = output THEN value ELSE 0]

\* IPComClient.set_output (lines 1148-1168): frame_builder.set_output checks
\* the ranges and builds the command, send_command writes it
CallSetOutput ==
    /\ mode = "args"
    /\ app = "idle"
    /\ calls < MaxCalls
    /\ \E module \in ArgModules, output \in ArgOutputs, value \in ArgValues :
        \E sent \in BOOLEAN :
            /\ sent => (InRange(module, output, value) /\ MaySend)
            /\ bus' = IF sent
                      THEN [bus EXCEPT ![ModuleAt(ToAddress(module))] =
                                            ZeroedRow(output, value)]
                      ELSE bus
            /\ io' = [io EXCEPT !.op = "set_output", !.module = module,
                                !.output = output, !.value = value,
                                !.ok = sent, !.got = 0, !.held = Held]
    /\ calls' = calls + 1
    /\ UNCHANGED <<sessionVars, shadowVars, shown, mode, app, cv, ha,
                   engineVars, ghostVars, keyBytes, recvBuffer, rx, sv>>

NextArgs ==
    \/ CallSetValueArgs \/ SvEnter \/ SvRead \/ SvCommit \/ ReturnSetValue
    \/ CallSnapshotGet \/ CallSnapshotSet
    \/ CallSetOutput

SpecArgs == InitArgs /\ [][NextArgs]_vars

\* a call of set_value that has been turned down by its checks
Rejected == mode = "args" /\ io.op = "set_value" /\ sv.pc = "raised"
                /\ sv.error # "none"

C20_RangeChecks ==
    mode = "args" =>
        /\ (io.op = "set_value" /\ ~InRange(io.module, io.output, io.value)) =>
                /\ sv.pc \in {"enter", "raised", "none"}
                /\ sv.pc = "raised" => sv.error = "ValueError"
                /\ Held = io.held
        /\ (io.op = "set_value" /\ InRange(io.module, io.output, io.value)
                /\ connected /\ io.held.latest # NoSnapshot) =>
                /\ sv.pc = "raised" => sv.error = "none"
                /\ sv.pc \in {"ok", "raised", "none"} =>
                        pendingWrites[io.module][io.output] = io.value
        /\ io.op = "get" =>
                /\ io.ok = (io.module \in 1..16 /\ io.output \in 1..8)
                /\ io.ok => io.got = io.held.latest[io.module][io.output]
                /\ Held = io.held
        /\ io.op = "set" =>
                /\ io.ok = InRange(io.module, io.output, io.value)
                /\ io.ok => latestSnapshot[io.module][io.output] = io.value
                /\ ~io.ok => Held = io.held

\* output 9 was turned down after a write to module 16, output 8 went out
C20_Witness ==
    /\ Rejected
    /\ io.output = 9
    /\ io.module = 16
    /\ io.value = 255
    /\ sv.error = "ValueError"
    /\ 16 \in DOMAIN pendingWrites
    /\ pendingWrites[16][8] = 255
    /\ bus[16][8] = 255

\* the row the module had for the client when the last call was made
HeldRow ==
    IF io.module \in DOMAIN io.held.pending
    THEN io.held.pending[io.module]
    ELSE io.held.latest[io.module]

\* the last public operation has written its command
Emitted ==
    /\ mode = "args"
    /\ \/ io.op = "set_value" /\ sv.pc = "ok"
       \/ io.op = "set_output" /\ io.ok

\* C21: every write a public operation emits reaches the module at address
\* 60 + (module - 1) and carries that module's current row with only the
\* target output changed; no operation emits a row that zeroes the others.
C21_EveryWriteCarriesTheRow ==
    Emitted =>
        /\ io.held.latest # NoSnapshot
        /\ bus = [io.held.bus EXCEPT ![io.module] =
                        [HeldRow EXCEPT ![io.output] = io.value]]

\* ======================================================== the lifecycle
\* start_persistent_connection, stop_persistent_connection, queue_command
\* and the four threads, with the observers of connect() and disconnect().
\* connected, authenticated, processing, queue, cq, ka, sp and rx are the
\* client's fields and threads; io holds _persistent_mode, _shutdown_event
\* and what an observer of the run has seen:
\*   log      begin / end of every queued command that was executed
\*   next     the number the next queued command gets
\*   left     the commands in the queue when stop was last requested
\*   mark     the length of log at that moment
\*   stopDone stop_persistent_connection has returned, no start since
\*   late     a thread has written after stop had returned
\*   obs      the observer that was called last
MaxCommands == 2
MaxStarts == 2

Commands == 1..MaxCommands

\* every thread has returned
NoThreads ==
    /\ ka = [pc |-> "dead"]
    /\ sp = [pc |-> "dead"]
    /\ cq = [pc |-> "dead", id |-> 0]
    /\ rx = [pc |-> "dead", old |-> "none"]

\* a client as __init__ leaves it (lines 253-311)
InitLifecycle ==
    /\ connected = FALSE
    /\ authenticated = FALSE
    /\ publicKey = 0
    /\ secure = TRUE
    /\ latestSnapshot = NoSnapshot
    /\ pendingWrites = EmptyMap
    /\ processing = FALSE
    /\ queue = <<>>
    /\ lock = "none"
    /\ NoThreads
    /\ bus = [m \in Modules |-> [o \in Outputs |-> OFF]]
    /\ shown = bus
    /\ sv = NoCall
    /\ mode = "life"
    /\ app = "down"
    /\ cv = NoCover
    /\ ha = [up |-> OFF, down |-> OFF]
    /\ lastTx = NoTx
    /\ commanded = [m \in Modules |-> EmptyMap]
    /\ calls = 0
    /\ snapshots = 0
    /\ keyBytes = <<>>
    /\ recvBuffer = <<>>
    /\ io = [step |-> "life", persistent |-> FALSE, shutdown |-> FALSE,
             log |-> <<>>, next |-> 1, starts |-> 0, left |-> {}, mark |-> 0,
             stopDone |-> FALSE, late |-> FALSE, obs |-> "none"]

\* what no step of the lifecycle touches
LifeRest ==
    UNCHANGED <<publicKey, secure, shadowVars, gatewayVars, mode, cv, ha,
                calls, lock, ghostVars, keyBytes, recvBuffer, sv>>

\* while self._persistent_mode and not self._shutdown_event.is_set()
\* (lines 1487, 1524, 1561, 1618)
Running == io.persistent /\ ~io.shutdown

\* a thread writes to the socket
Wrote(r) == [r EXCEPT !.late = r.late \/ r.stopDone]

\* self._command_queue.get() takes the newest command
QueueGetNewest(q) ==
    [item |-> q[Len(q)], rest |-> SubSeq(q, 1, Len(q) - 1)]

\* self._command_queue.get() (line 1565): queue.Queue is first in, first out
QueueGet(q) == [item |-> Head(q), rest |-> Tail(q)]

\* start_persistent_connection (lines 1364-1443): connect() and
\* authenticate() where needed, then the flags and the four threads; connect
\* calls the on-connect observer as soon as the TCP connection stands (lines
\* 343-345), a failed authenticate is followed by disconnect() (line 1394).
\* A receive thread of the previous run that is still in its reconnect
\* sleep is not touched: the new thread replaces it in _receive_thread.
StartPersistentConnection ==
    /\ mode = "life"
    /\ app = "down"
    /\ io.starts < MaxStarts
    /\ rx.pc \in {"dead", "sleep"}
    /\ \E out \in {"ok", "noconnect", "noauth"} :
        /\ out = "noconnect" => ~connected
        /\ out = "noauth" => ~authenticated
        /\ connected' = (out = "ok")
        /\ authenticated' = (out = "ok")
        /\ io' = [io EXCEPT
                    !.starts = @ + 1,
                    !.persistent = (out = "ok"),
                    !.shutdown = IF out = "ok" THEN FALSE ELSE @,
                    !.stopDone = IF out = "ok" THEN FALSE ELSE @,
                    !.obs = CASE out = "ok" /\ ~connected -> "connect"
                              [] out = "noauth" -> "disconnect"
                              [] OTHER -> @]
        /\ IF out = "ok"
           THEN /\ app' = "up"
                /\ ka' = [pc |-> "run"]
                /\ sp' = [pc |-> "run"]
                /\ cq' = [pc |-> "top", id |-> 0]
                /\ rx' = [pc |-> "top",
                          old |-> IF rx.pc = "sleep" THEN "sleep" ELSE rx.old]
           ELSE UNCHANGED <<app, ka, sp, cq, rx>>
    /\ UNCHANGED <<processing, queue>>
    /\ LifeRest

\* queue_command (lines 1660-1676)
LifeQueueCommand ==
    /\ mode = "life"
    /\ io.next \in Commands
    /\ queue' = Append(queue, io.next)
    /\ io' = [io EXCEPT !.next = @ + 1]
    /\ UNCHANGED <<connected, authenticated, app, processing, cq, ka, sp,
                   rx>>
    /\ LifeRest

\* stop_persistent_connection (lines 1449-1455): the flags
StopRequest ==
    /\ mode = "life"
    /\ app = "up"
    /\ app' = "joining"
    /\ io' = [io EXCEPT !.persistent = FALSE, !.shutdown = TRUE,
                        !.left = {queue[i] : i \in DOMAIN queue},
                        !.mark = Len(io.log)]
    /\ UNCHANGED <<connected, authenticated, processing, queue, cq, ka, sp,
                   rx>>
    /\ LifeRest

\* stop_persistent_connection (lines 1457-1472): the joins, then
\* disconnect().  The keep-alive, status-poll and command-queue threads wait
\* on the event or at most 250 ms and have returned; join(timeout=2.0) gives
\* up on a receive thread that is in recv (socket timeout 5 s) or in its
\* reconnect sleep (1 s to 30 s).  disconnect (lines 390-410) returns at
\* once when _connected is False, else writes the disconnect frame, closes
\* the socket and calls the on-disconnect observer.
StopJoin ==
    /\ app = "joining"
    /\ ka.pc = "dead" /\ sp.pc = "dead" /\ cq.pc = "dead"
    /\ rx.pc \in {"dead", "sleep", "recv"}
    /\ app' = "down"
    /\ connected' = FALSE
    /\ authenticated' = FALSE
    /\ io' = [io EXCEPT !.stopDone = TRUE,
                        !.obs = IF connected THEN "disconnect" ELSE @]
    /\ UNCHANGED <<processing, queue, cq, ka, sp, rx>>
    /\ LifeRest

\* _keepalive_loop (lines 1487-1501): one iteration
KeepaliveLoop ==
    /\ mode = "life"
    /\ ka.pc = "run"
    /\ IF ~Running
       THEN ka' = [pc |-> "dead"] /\ UNCHANGED io
       ELSE /\ connected /\ authenticated /\ ~processing
            /\ io' = Wrote(io)
            /\ UNCHANGED ka
    /\ UNCHANGED <<connected, authenticated, app, processing, queue, cq, sp,
                   rx>>
    /\ LifeRest

\* _status_poll_loop (lines 1524-1537): one iteration
StatusPollLoop ==
    /\ mode = "life"
    /\ sp.pc = "run"
    /\ IF ~Running
       THEN sp' = [pc |-> "dead"] /\ UNCHANGED io
       ELSE /\ connected /\ authenticated /\ ~processing
            /\ io' = Wrote(io)
            /\ UNCHANGED sp
    /\ UNCHANGED <<connected, authenticated, app, processing, queue, cq, ka,
                   rx>>
    /\ LifeRest

\* _command_queue_loop: the loop condition (line 1561)
CommandQueueCheck ==
    /\ mode = "life"
    /\ cq.pc = "top"
    /\ cq' = [cq EXCEPT !.pc = IF Running THEN "get" ELSE "dead"]
    /\ UNCHANGED <<connected, authenticated, app, processing, queue, ka, sp,
                   rx, io>>
    /\ LifeRest

\* _command_queue_loop: get(timeout) (lines 1564-1567); a command taken
\* while the session is not up is dropped (lines 1570, 1591)
CommandQueueGet ==
    /\ cq.pc = "get"
    /\ IF queue = <<>>
       THEN /\ cq' = [cq EXCEPT !.pc = "top"]
            /\ UNCHANGED <<queue, processing, io>>
       ELSE /\ queue' = QueueGet(queue).rest
            /\ IF connected /\ authenticated
               THEN /\ processing' = TRUE
                    /\ cq' = [pc |-> "exec", id |-> QueueGet(queue).item]
                    /\ io' = [io EXCEPT !.log = Append(@,
                                [kind |-> "begin",
                                 id |-> QueueGet(queue).item])]
               ELSE /\ cq' = [cq EXCEPT !.pc = "top"]
                    /\ UNCHANGED <<processing, io>>
    /\ UNCHANGED <<connected, authenticated, app, ka, sp, rx>>
    /\ LifeRest

\* _command_queue_loop: the command runs and writes, or raises when the
\* socket has gone (send_command, lines 1135-1142); the flag is cleared and
\* the task marked done (lines 1576-1591)
CommandQueueRun ==
    /\ cq.pc = "exec"
    /\ processing' = FALSE
    /\ io' = [(IF connected THEN Wrote(io) ELSE io) EXCEPT
                 !.log = Append(@, [kind |-> "end", id |-> cq.id])]
    /\ cq' = [pc |-> "top", id |-> 0]
    /\ UNCHANGED <<connected, authenticated, app, queue, ka, sp, rx>>
    /\ LifeRest

\* _persistent_receive_loop: the loop condition and `if not
\* self._connected` (lines 1618-1622)
ReceiveCheck ==
    /\ mode = "life"
    /\ rx.pc = "top"
    /\ rx' = [rx EXCEPT !.pc = IF ~Running THEN "dead"
                               ELSE IF ~connected THEN "sleep"
                               ELSE "recv"]
    /\ UNCHANGED <<connected, authenticated, app, processing, queue, cq, ka,
                   sp, io>>
    /\ LifeRest

\* connect() and authenticate() of a receive thread after its sleep (lines
\* 1624-1626): connect returns True at once when _connected is set, else it
\* opens a socket and calls the on-connect observer; authenticate writes the
\* connect request and leaves the socket as it is when it fails
Reconnect(after) ==
    \E out \in {"ok", "noconnect", "noauth"} :
        /\ out = "noconnect" => ~connected
        /\ connected' = (out # "noconnect")
        /\ authenticated' = IF out = "ok" THEN TRUE
                            ELSE IF out = "noauth" THEN authenticated
                            ELSE FALSE
        /\ io' = [(IF out = "noconnect" THEN io ELSE Wrote(io)) EXCEPT
                     !.obs = IF out # "noconnect" /\ ~connected
                             THEN "connect" ELSE @]
        /\ rx' = after[out]

\* _persistent_receive_loop: time.sleep(reconnect_delay) is over (lines
\* 1623-1634); the flags are not read again before connect()
ReceiveReconnect ==
    /\ mode = "life"
    /\ rx.pc = "sleep"
    /\ Reconnect([ok |-> [rx EXCEPT !.pc = "recv"],
                  noconnect |-> [rx EXCEPT !.pc = "top"],
                  noauth |-> [rx EXCEPT !.pc = "top"]])
    /\ UNCHANGED <<app, processing, queue, cq, ka, sp>>
    /\ LifeRest

\* the same step of a receive thread that a start has replaced; it goes on
\* as a second receiver
OldReceiveReconnect ==
    /\ mode = "life"
    /\ rx.old = "sleep"
    /\ Reconnect([out \in {"ok", "noconnect", "noauth"} |->
                        [rx EXCEPT !.old = "none"]])
    /\ UNCHANGED <<app, processing, queue, cq, ka, sp>>
    /\ LifeRest

\* _receive_loop (lines 732-790): data or a timeout, or the connection has
\* gone and _cleanup_socket runs (lines 412-422), which calls no observer
ReceiveLoop ==
    /\ mode = "life"
    /\ rx.pc = "recv"
    /\ rx' = [rx EXCEPT !.pc = "top"]
    /\ \/ UNCHANGED <<connected, authenticated>>
       \/ connected' = FALSE /\ authenticated' = FALSE
    /\ UNCHANGED <<app, processing, queue, cq, ka, sp, io>>
    /\ LifeRest

NextLifecycle ==
    \/ StartPersistentConnection \/ LifeQueueCommand
    \/ StopRequest \/ StopJoin
    \/ KeepaliveLoop \/ StatusPollLoop
    \/ CommandQueueCheck \/ CommandQueueGet \/ CommandQueueRun
    \/ ReceiveCheck \/ ReceiveReconnect \/ OldReceiveReconnect \/ ReceiveLoop

SpecLifecycle == InitLifecycle /\ [][NextLifecycle]_vars

\* the positions of log at which command c begins / ends
Begins(c) == {i \in DOMAIN io.log : io.log[i] = [kind |-> "begin", id |-> c]}
Ends(c) == {i \in DOMAIN io.log : io.log[i] = [kind |-> "end", id |-> c]}

C23_QueuedCommandsDiscardedAtStop ==
    mode = "life" =>
        \A i \in DOMAIN io.log :
            (i > io.mark /\ io.log[i].kind = "begin") =>
                io.log[i].id \notin io.left

\* C24: after the shutdown signal the four threads return, the socket is
\* closed when the keep-alive, status-poll and command-queue threads have
\* returned, and once stop has closed it no thread writes and it stays closed.
C24_QuietAfterStop ==
    (mode = "life" /\ io.stopDone) =>
        /\ ka.pc = "dead" /\ sp.pc = "dead" /\ cq.pc = "dead"
        /\ ~io.late
        /\ ~connected

\* the session is Established or Degraded
SessionUp == connected /\ authenticated

\* C25: the on-connect observer is called exactly when the session becomes
\* Established or Degraded and the on-disconnect observer on every
\* transition away from it, so the observer called last tells whether the
\* session is up.
C25_ObserversFollowTheSession ==
    mode = "life" => (SessionUp <=> io.obs = "connect")

\* ======================================================= the supervisor
\* IPComCoordinator (custom_components/ipcom/coordinator.py): the watch
\* subprocess, the stdout reader task, the health check task and the restart
\* handler _handle_subprocess_exit, which runs inside either task.  The
\* tasks share one event loop and change hands at an await only.  io holds
\* the coordinator's fields
\*   type      _connection_type         host     _host / _port
\*   failures  _consecutive_failures    process  _process (0 is None)
\*   reader    the subprocess _reader_task reads (0: no task)
\*   tracked   _reader_task is the task the reader's handler runs in
\*   h         where the handler of either task stands
\* and the world around it
\*   live      the watch subprocesses that run
\*   spawned   how many were started
\*   streak    restart handlers entered since a subprocess last connected
\*   origin    the endpoint in use when the streak began
\*   tries     the restarts attempted in the streak
restart_delay == 5
max_restart_delay == 300
MaxSpawns == 3
MaxFailures == 4

Slots == {"reader", "health"}

RECURSIVE Pow2(_)
Pow2(n) == IF n <= 0 THEN 1 ELSE 2 * Pow2(n - 1)

\* delay = min(self._restart_delay * (2 ** (self._consecutive_failures -
\* 1)), self._max_restart_delay) (lines 618-621)
BackoffDelay(n) ==
    IF restart_delay * Pow2(n - 1) < max_restart_delay
    THEN restart_delay * Pow2(n - 1) ELSE max_restart_delay

\* _try_fallback_connection (lines 477-532) with both addresses configured
Alternate(host) == IF host = "local" THEN "remote" ELSE "local"

HandlerIdle == [pc |-> "idle", first |-> FALSE, delay |-> 0, n |-> 0]

\* async_start has started the first watch subprocess, its reader and the
\* health check (lines 213-217)
InitSupervisor ==
    /\ connected = FALSE
    /\ authenticated = FALSE
    /\ publicKey = 0
    /\ secure = TRUE
    /\ latestSnapshot = NoSnapshot
    /\ pendingWrites = EmptyMap
    /\ EngineIdle
    /\ bus = [m \in Modules |-> [o \in Outputs |-> OFF]]
    /\ shown = bus
    /\ rx = [pc |-> "recv"]
    /\ sv = NoCall
    /\ mode = "sup"
    /\ app = "idle"
    /\ cv = NoCover
    /\ ha = [up |-> OFF, down |-> OFF]
    /\ lastTx = NoTx
    /\ commanded = [m \in Modules |-> EmptyMap]
    /\ calls = 0
    /\ snapshots = 0
    /\ keyBytes = <<>>
    /\ recvBuffer = <<>>
    /\ \E type \in {"local", "both"} :
        io = [step |-> "sup", type |-> type, host |-> "local",
              failures |-> 0, process |-> 1, reader |-> 1, tracked |-> FALSE,
              h |-> [s \in Slots |-> HandlerIdle],
              live |-> {1}, spawned |-> 1,
              streak |-> 0, origin |-> "local", tries |-> <<>>]

SupRest ==
    UNCHANGED <<sessionVars, shadowVars, gatewayVars, callerVars,
                engineVars, ghostVars, keyBytes, recvBuffer, rx, sv>>

\* _stop_subprocess (lines 748-774): the reader task is cancelled, and with
\* it the handler that runs in it unless that handler is the caller; the
\* subprocess is terminated and waited for; both fields are set to None
StopSubprocess(r, s) ==
    [r EXCEPT !.h = IF r.tracked /\ s # "reader"
                    THEN [@ EXCEPT !["reader"] = HandlerIdle] ELSE @,
              !.live = @ \ {r.process},
              !.process = 0,
              !.reader = 0,
              !.tracked = FALSE]

\* _start_subprocess up to `await asyncio.create_subprocess_exec` (lines
\* 219-252): a subprocess that is still held is stopped first
StartSubprocess(r, s, slept) ==
    [(IF r.process # 0 THEN StopSubprocess(r, s) ELSE r) EXCEPT
        !.h[s].pc = "spawn",
        !.tries = Append(@, [host |-> r.host, slept |-> slept])]

\* _handle_subprocess_exit down to its first await (lines 534-627): the
\* counter, then in both mode on failure 1 the other endpoint and
\* _start_subprocess at once, else the delay and asyncio.sleep
HandleSubprocessExit(r, s) ==
    LET n == r.failures + 1
        q == [r EXCEPT !.failures = n, !.streak = @ + 1] IN
    IF n = 1 /\ r.type = "both"
    THEN StartSubprocess([q EXCEPT !.host = Alternate(@),
                                   !.h[s].first = TRUE], s, FALSE)
    ELSE [q EXCEPT !.h[s] = [pc |-> "sleep", first |-> FALSE,
                             delay |-> BackoffDelay(n),
                             n |-> r.streak + 1]]

\* a watch subprocess ends: the gateway cannot be reached or drops the
\* session (cli/ipcom_cli.py, main returns 1)
ProcessExit ==
    /\ mode = "sup"
    /\ \E p \in io.live : io' = [io EXCEPT !.live = @ \ {p}]
    /\ SupRest

\* _read_stdout_loop (lines 360-383): readline returns nothing, the handler
\* is awaited inside the reader task
ReadStdoutEof ==
    /\ mode = "sup"
    /\ io.reader # 0
    /\ io.reader \notin io.live
    /\ io.h["reader"].pc = "idle"
    /\ io.failures < MaxFailures
    /\ io' = HandleSubprocessExit([io EXCEPT !.tracked = TRUE], "reader")
    /\ SupRest

\* _health_check_loop (lines 689-729): one check; the subprocess is gone, or
\* has exited, or no data came for connection_timeout and it is stopped
HealthCheck ==
    /\ mode = "sup"
    /\ io.h["health"].pc = "idle"
    /\ io.failures < MaxFailures
    /\ io' = IF io.process = 0 \/ io.process \notin io.live
             THEN HandleSubprocessExit(io, "health")
             ELSE HandleSubprocessExit(StopSubprocess(io, "health"),
                                       "health")
    /\ SupRest

\* _handle_subprocess_exit: asyncio.sleep is over (lines 637-644); in both
\* mode the endpoint is switched when the counter is above 1
WakeUp ==
    /\ mode = "sup"
    /\ \E s \in Slots :
        /\ io.h[s].pc = "sleep"
        /\ io' = StartSubprocess(
                    [io EXCEPT !.host = IF io.type = "both" /\ io.failures > 1
                                        THEN Alternate(@) ELSE @],
                    s, TRUE)
    /\ SupRest

\* create_subprocess_exec returns (lines 247-252): the subprocess is held in
\* _process and the initial state is fetched; up tells whether the new
\* subprocess gets its session
Spawned ==
    /\ mode = "sup"
    /\ io.spawned < MaxSpawns
    /\ \E s \in Slots, up \in BOOLEAN :
        /\ io.h[s].pc = "spawn"
        /\ io' = [io EXCEPT !.spawned = @ + 1,
                            !.live = @ \cup {io.spawned + 1},
                            !.process = io.spawned + 1,
                            !.h[s].pc = "fetch",
                            !.streak = IF up THEN 0 ELSE @,
                            !.tries = IF up THEN <<>> ELSE @,
                            !.origin = IF up THEN io.host ELSE @]
    /\ SupRest

\* create_subprocess_exec raises (lines 278-283): after the immediate retry
\* the handler goes on to its delay (lines 609-627), after a delayed one it
\* starts the handler again as a task (line 673)
SpawnFailed ==
    /\ mode = "sup"
    /\ \E s \in Slots :
        /\ io.h[s].pc = "spawn"
        /\ IF io.h[s].first
           THEN io' = [io EXCEPT !.h[s] = [pc |-> "sleep", first |-> FALSE,
                                           delay |-> BackoffDelay(io.failures),
                                           n |-> io.streak]]
           ELSE /\ io.failures < MaxFailures
                /\ io' = HandleSubprocessExit(io, s)
    /\ SupRest

\* _start_subprocess after _fetch_initial_state (lines 254-275): the reader
\* task for the subprocess now held, and the counter reset
Fetched ==
    /\ mode = "sup"
    /\ \E s \in Slots :
        /\ io.h[s].pc = "fetch"
        /\ io' = [io EXCEPT !.reader = io.process,
                            !.tracked = FALSE,
                            !.failures = 0,
                            !.h[s] = HandlerIdle]
    /\ SupRest

NextSupervisor ==
    \/ ProcessExit \/ ReadStdoutEof \/ HealthCheck
    \/ WakeUp \/ Spawned \/ SpawnFailed \/ Fetched

SpecSupervisor == InitSupervisor /\ [][NextSupervisor]_vars

\* C26: the delay a restart waits after the n-th failure in a row is
\* min(base * 2^(n-1), max_delay): the counter grows over consecutive
\* failed attempts and only a restart that succeeds resets it.
C26_BackoffDoubles ==
    mode = "sup" =>
        \A s \in Slots :
            io.h[s].pc = "sleep" =>
                io.h[s].delay = BackoffDelay(io.h[s].n)

\* C27: in both mode the first retry of a streak goes to the other endpoint
\* without a delay, and every later retry goes to the endpoint the previous
\* one did not use, after a delay.
C27_EndpointsAlternate ==
    (mode = "sup" /\ io.type = "both") =>
        \A i \in DOMAIN io.tries :
            IF i = 1
            THEN io.tries[i] = [host |-> Alternate(io.origin),
                                slept |-> FALSE]
            ELSE io.tries[i] = [host |-> Alternate(io.tries[i - 1].host),
                                slept |-> TRUE]

\* C28: at most one watch subprocess runs at any moment.
C28_OneSubprocess ==
    mode = "sup" => Cardinality(io.live) <= 1

\* C29: every status request on the wire is the encryption of 05 01 under
\* the cipher state the session has at that moment, written without a frame.
C29_StatusRequestIsEncrypted ==
    (mode = "handshake" /\ io.msg.dir = "status") =>
        io.msg.wire = encrypt(ExoOutputsRequest, CipherState).bytes

\* ================================================== the connect request
\* _build_connect_request and the first write of authenticate, for a client
\* that was just constructed.  A name is n times one character.
MaxUserLen == 22
MaxPwdLen == 23

FieldLen == 26
Space == 32
UserTag == <<85, 83, 69, 82, 58>>
PwdTag == <<80, 87, 68, 58>>
NameChars == {48, 97, 122}

\* self._bus_number = 1 (line 295)
BusNumber == 1

Repeat(c, n) == [i \in 1..n |-> c]

\* username_str + " " * (26 - len(username_str)) (lines 613-616, 619-622):
\* a negative count gives no padding
PaddedField(tag, name) ==
    tag \o name \o Repeat(Space, FieldLen - Len(tag \o name))

\* _build_connect_request (lines 591-629)
BuildConnectRequest(username, password) ==
    <<1, 2>> \o PaddedField(UserTag, username)
             \o PaddedField(PwdTag, password) \o <<BusNumber, 0>>

InitConnect ==
    /\ BenchIdle
    /\ mode = "connect"
    /\ secure = TRUE
    /\ publicKey = 0
    /\ keyBytes = << >>
    /\ \E u \in {1, MaxUserLen - 1, MaxUserLen},
          p \in {1, MaxPwdLen - 1, MaxPwdLen},
          cu \in NameChars, cp \in NameChars :
        io = [step |-> "connect", username |-> Repeat(cu, u),
              password |-> Repeat(cp, p), sent |-> FALSE, wire |-> << >>]

\* authenticate (lines 465-485) after connect(): the request is built,
\* encrypted with the cipher as it stands and written
SendConnectRequest ==
    /\ mode = "connect"
    /\ ~io.sent
    /\ connected' = TRUE
    /\ io' = [io EXCEPT
                !.sent = TRUE,
                !.wire = encrypt(BuildConnectRequest(io.username,
                                                     io.password),
                                 CipherState).bytes]
    /\ UNCHANGED <<authenticated, publicKey, secure, shadowVars, gatewayVars,
                   callerVars, engineVars, ghostVars, keyBytes, recvBuffer,
                   rx, sv>>

NextConnect == SendConnectRequest

SpecConnect == InitConnect /\ [][NextConnect]_vars

\* bytes lo..hi of s are the field tag name, filled up with spaces
IsField(s, lo, hi, tag, name) ==
    /\ Len(s) >= hi
    /\ Len(tag \o name) <= hi - lo + 1
    /\ \A i \in lo..hi :
          s[i] = IF i - lo + 1 <= Len(tag \o name)
                 THEN (tag \o name)[i - lo + 1] ELSE Space

\* C30: the first bytes a session writes are 56 bytes that decrypt in
\* single-key mode to 01 02, USER:<username> filled with spaces to 26
\* bytes, PWD:<password> filled with spaces to 26 bytes, the bus number
\* and 00.
C30_ConnectRequestLayout ==
    (mode = "connect" /\ io.sent) =>
        LET plain == SingleKeyPlain(io.wire) IN
        /\ Len(io.wire) = 56
        /\ SubSeq(plain, 1, 2) = <<1, 2>>
        /\ IsField(plain, 3, 28, UserTag, io.username)
        /\ IsField(plain, 29, 54, PwdTag, io.password)
        /\ plain[55] = BusNumber
        /\ plain[56] = 0

\* ------------------------------------------------------------------ C31
\* a stop action entered while both relays of the cover are 0 on the bus
StopOnStoppedCover ==
    /\ app = "cover"
    /\ cv.request = "stop"
    /\ Cell(cv.entryBus, UpRelay) = 0
    /\ Cell(cv.entryBus, DownRelay) = 0

\* C31: a stop on a cover whose relays are both 0 changes no output value:
\* whatever rows it has written, every output of every module still has the
\* value it had when the stop was entered (so a second stop finds the relay
\* state the first one found).
C31_StopOnStoppedCoverChangesNothing ==
    StopOnStoppedCover => bus = cv.entryBus

\* ----------------------------------------------- snapshot bodies (models)
NumSnapValues == 3

\* byte values tried in a body: 0, 255, 254, ...
SnapValues == {(i * 255) % 256 : i \in 0..(NumSnapValues - 1)}

\* the bytes of a body that are varied (from 1): the two header bytes, the
\* first and last cell of the matrix and cells on both sides of a module
\* boundary
MarkedBytes == {1, 2, 3, 10, 11, 130}

\* decrypted 130-byte bodies: one fill value and one varied byte
SnapBodies ==
    {[i \in 1..SnapshotLen |-> IF i = p THEN v ELSE f] :
        f \in {OFF, ON}, p \in MarkedBytes, v \in SnapValues}

\* variant of PostInit that takes the cells from the start of the body
PostInitNoHeader(raw) ==
    IF Len(raw) >= SnapshotLen
    THEN [module_idx \in 0..15 |->
            SubSeq(raw, (module_idx * 8) + 1, (module_idx * 8) + 8)]
    ELSE << >>

\* StateSnapshot.__post_init__ (models.py 110-118): outputs[module_idx] is
\* the slice raw[offset : offset + 8] with offset = 2 + module_idx * 8
PostInit(raw) ==
    IF Len(raw) >= SnapshotLen
    THEN [module_idx \in 0..15 |->
            SubSeq(raw, (2 + module_idx * 8) + 1, (2 + module_idx * 8) + 8)]
    ELSE << >>

\* StateSnapshot.get_value (models.py 120-139) on the parsed outputs:
\* self.outputs[module - 1][output - 1]
GetValue(outputs, module, output) ==
    IF module \notin 1..16 \/ output \notin 1..8
    THEN [ok |-> FALSE, value |-> 0]
    ELSE [ok |-> TRUE, value |-> outputs[module - 1][(output - 1) + 1]]

\* StateSnapshot.compare (models.py 222-243): the dict from (module, output)
\* to (old_val, new_val) of the cells whose values differ
Compare(self, other) ==
    LET changed == {c \in (0..15) \X (0..7) :
                       other[c[1]][c[2] + 1] # self[c[1]][c[2] + 1]}
    IN  [k \in {<<c[1] + 1, c[2] + 1>> : c \in changed} |->
            <<other[k[1] - 1][k[2]], self[k[1] - 1][k[2]]>>]

InitSnapshot ==
    /\ BenchIdle
    /\ mode = "snap"
    /\ secure = TRUE
    /\ publicKey = 0
    /\ keyBytes = << >>
    /\ \E raw \in SnapBodies :
        io = [step |-> "snap", op |-> "none", raw |-> raw,
              outputs |-> PostInit(raw), last |-> << >>, lastRaw |-> << >>,
              module |-> 0, output |-> 0, got |-> 0, changes |-> << >>]

SnapRest ==
    UNCHANGED <<sessionVars, shadowVars, gatewayVars, callerVars, engineVars,
                ghostVars, keyBytes, recvBuffer, rx, sv>>

\* snapshot.get_value(module, output) of a caller (ipcom_cli.py 305, 426)
CallGetValue ==
    /\ mode = "snap"
    /\ io.op = "none"
    /\ \E module \in 1..16, output \in 1..8 :
          io' = [io EXCEPT !.op = "get", !.module = module,
                           !.output = output,
                           !.got = GetValue(io.outputs, module, output).value]
    /\ SnapRest

\* the next body arrives: StateSnapshot(raw=...) is built from it and the
\* one held becomes the previous snapshot (ipcom_cli.py 693-712)
ReceiveBody ==
    /\ mode = "snap"
    /\ io.op = "none"
    /\ \E raw \in SnapBodies :
          io' = [io EXCEPT !.op = "received", !.raw = raw,
                           !.outputs = PostInit(raw),
                           !.last = io.outputs, !.lastRaw = io.raw]
    /\ SnapRest

\* snapshot.compare(last_snapshot)
CallCompare ==
    /\ mode = "snap"
    /\ io.op = "received"
    /\ io' = [io EXCEPT !.op = "compared",
                        !.changes = Compare(io.outputs, io.last)]
    /\ SnapRest

NextSnapshot == CallGetValue \/ ReceiveBody \/ CallCompare

SpecSnapshot == InitSnapshot /\ [][NextSnapshot]_vars

\* the byte of a body at an offset counted from 0
ByteAt(raw, offset) == raw[offset + 1]

\* C32: for every 130-byte body, get(m, o) is the byte at offset
\* 2 + (m-1)*8 + (o-1), and the diff against the previous snapshot holds
\* exactly the cells whose bytes differ, each with its old and new value.
C32_GetAndDiffFollowTheLayout ==
    /\ (mode = "snap" /\ io.op = "get") =>
          io.got = ByteAt(io.raw, 2 + (io.module - 1) * 8 + (io.output - 1))
    /\ (mode = "snap" /\ io.op = "compared") =>
          /\ DOMAIN io.changes =
                {k \in (1..16) \X (1..8) :
                    ByteAt(io.lastRaw, 2 + (k[1] - 1) * 8 + (k[2] - 1))
                    # ByteAt(io.raw, 2 + (k[1] - 1) * 8 + (k[2] - 1))}
          /\ \A k \in DOMAIN io.changes :
                io.changes[k] =
                    <<ByteAt(io.lastRaw, 2 + (k[1] - 1) * 8 + (k[2] - 1)),
                      ByteAt(io.raw, 2 + (k[1] - 1) * 8 + (k[2] - 1))>>

\* the last cell of the matrix changed between two bodies and was reported
C32_Witness ==
    /\ mode = "snap"
    /\ io.op = "compared"
    /\ <<16, 8>> \in DOMAIN io.changes
    /\ io.changes[<<16, 8>>] = <<OFF, ON>>

\* ------------------------------------------- framed messages written
CMD_DISCONNECT_RESPONSE == 2
CMD_KEEPALIVE_RESPONSE == 3

\* set_value(..., bus=2) (line 1207)
SetValueBus == 2

\* frame_builder.build_exo_set_values_frame (frame_builder.py 12-62):
\* [bus] 23 to from len 01 v1..v8 xor, the checksum over the plain data
BuildExoSetValuesFrame(from_addr, to_addr, values, bus_number) ==
    LET data == <<1>> \o values
    IN  (IF bus_number # 0 THEN <<bus_number>> ELSE << >>)
        \o <<FRAME_START_BYTE, to_addr, from_addr, Len(data) + 1>>
        \o data \o <<XorAll(data)>>

\* frame_builder.build_frame_request_command (frame_builder.py 65-79)
BuildFrameRequestCommand(frame) == <<4, 1>> \o frame

\* rows of eight values: one fill value and one output set
WriteRows ==
    {[o \in 1..8 |-> IF o = k THEN v ELSE f] :
        f \in {OFF, ON}, k \in {1, 8}, v \in SnapValues}

InitFrames ==
    /\ BenchIdle
    /\ mode = "frames"
    /\ \E cfg \in KeyConfigs :
        /\ secure = cfg.secure
        /\ keyBytes = cfg.key
        /\ publicKey = IF cfg.key = << >> THEN 0 ELSE 1
    /\ io = [step |-> "frames", kind |-> "none", data |-> << >>,
             wire |-> << >>]

FramesRest ==
    UNCHANGED <<publicKey, secure, shadowVars, gatewayVars, callerVars,
                engineVars, ghostVars, keyBytes, recvBuffer, rx, sv>>

\* connect() and authenticate() have returned True (lines 313-388, 424-589):
\* the cipher is the one the handshake left
FramesOpen ==
    /\ mode = "frames"
    /\ ~connected
    /\ io.kind = "none"
    /\ connected' = TRUE
    /\ authenticated' = TRUE
    /\ io' = io
    /\ FramesRest

\* send_keepalive (lines 1277-1286): send_frame encrypts the data, builds
\* the frame around the ciphertext and writes it (lines 1084-1098)
SendKeepalive ==
    /\ mode = "frames"
    /\ connected
    /\ io' = [io EXCEPT !.kind = "keepalive",
                        !.data = <<CMD_KEEPALIVE_RESPONSE>>,
                        !.wire = SendFrame(1, 0, <<CMD_KEEPALIVE_RESPONSE>>,
                                           CipherState)]
    /\ UNCHANGED <<connected, authenticated>>
    /\ FramesRest

\* set_value from the frame built on (lines 1253-1275): the frame and its
\* wrapper are built in plain text and send_command encrypts the whole
\* command (lines 1135-1143)
SendSetValues ==
    /\ mode = "frames"
    /\ connected
    /\ \E module \in {1, 2, 16}, values \in WriteRows :
        LET frame == BuildExoSetValuesFrame(0, ToAddress(module), values,
                                            SetValueBus)
            command == BuildFrameRequestCommand(frame)
        IN  io' = [io EXCEPT !.kind = "write",
                             !.data = <<1>> \o values,
                             !.wire = encrypt(command, CipherState).bytes]
    /\ UNCHANGED <<connected, authenticated>>
    /\ FramesRest

\* disconnect (lines 390-410): the frame is built around the plain data and
\* written with send_frame_bytes, then the socket is closed
SendDisconnect ==
    /\ mode = "frames"
    /\ connected
    /\ io' = [io EXCEPT !.kind = "disconnect",
                        !.data = <<CMD_DISCONNECT_RESPONSE>>,
                        !.wire = BuildFrame(1, 0, <<CMD_DISCONNECT_RESPONSE>>)]
    /\ CleanupSocket
    /\ UNCHANGED <<shadowVars, gatewayVars, callerVars, engineVars, ghostVars,
                   keyBytes, recvBuffer, rx, sv>>

NextFrames == FramesOpen \/ SendKeepalive \/ SendSetValues \/ SendDisconnect

SpecFrames == InitFrames /\ [][NextFrames]_vars

\* the bytes of wire from position at on are a frame whose data field is
\* data and whose checksum is the XOR of that data field
FrameAt(wire, at, data) ==
    /\ Len(wire) = at + 4 + Len(data)
    /\ wire[at] = FRAME_START_BYTE
    /\ wire[at + 3] = Len(data) + 1
    /\ SubSeq(wire, at + 4, at + 3 + Len(data)) = data
    /\ wire[at + 4 + Len(data)] = XorAll(SubSeq(wire, at + 4, at + 3 + Len(data)))

\* C33: every framed message written (keep-alive, write, disconnect) carries
\* as its data field the encryption of the plaintext data under the current
\* cipher state, and its checksum byte is the XOR of the data bytes on the
\* wire.  The frame may follow a bus number / wrapper prefix.
C33_FramesCarryCiphertext ==
    (mode = "frames" /\ io.kind # "none") =>
        \E at \in 1..Len(io.wire) :
            FrameAt(io.wire, at, encrypt(io.data, CipherState).bytes)

\* ------------------------------------------------------------------ C34
\* C34: a raw 130-byte message beginning 79 DB is accepted as a snapshot
\* (stored as the latest snapshot, the pending rows cleared, the observer
\* called) only if its decrypted command-id byte is 0x05: every snapshot
\* the receive thread has accepted starts with 0x05 once decrypted.
C34_OnlyCommandFiveIsASnapshot ==
    mode = "parser" =>
        \A i \in 1..Len(io.snaps) : io.snaps[i][1] = CMD_EXO_OUTPUTS_RESPONSE

\* ------------------------------------------------------------------ C35
\* C35: once a snapshot is installed, the latest snapshot holds a full
\* matrix for the rest of the session, whatever raw or framed messages the
\* gateway sends: every module has a row with a value for every output, so
\* every get succeeds and every set_value finds its row.
C35_LatestSnapshotStaysFull ==
    (mode = "parser" /\ latestSnapshot # NoSnapshot) =>
        \A m \in Modules : DOMAIN latestSnapshot[m] = Outputs

\* ------------------------------------------ the parser loop, step by step
MaxPieces == 2
MaxIterations == 8

\* variant of TotalSize that leaves the four header bytes out
TotalSizeDataOnly(length) == (length - 1) + 1

\* total_size = 4 + data_size + 1 with data_size = length - 1 (lines 903-904)
TotalSize(length) == 4 + (length - 1) + 1

\* pieces of a byte stream: a frame with length byte 0, a keep-alive frame
\* with a wrong and with a right checksum, a frame start alone, bytes that
\* are no frame, the snapshot prefix alone, and a raw snapshot
StreamPieces ==
    {<<FRAME_START_BYTE, 0, 1, 0, 7>>,
     Damage(SendFrame(0, 1, <<3>>, SessionKey), "checksum"),
     SendFrame(0, 1, <<3>>, SessionKey),
     <<FRAME_START_BYTE>>,
     <<0, 1, 2>>,
     SnapshotPrefix,
     SnapshotWire(1)}

\* the buffers tried: up to MaxPieces pieces one after the other
ParseBuffers == {Concat(s) : s \in SeqsUpTo(StreamPieces, MaxPieces)}

\* one iteration of the while loop of _parse_frames (lines 812-948): the
\* buffer it leaves, whether the loop ends there, and what was done
ParseIteration(buf, cfg) ==
    IF Len(buf) < 2 THEN [buf |-> buf, stop |-> TRUE, what |-> "exit"]
    ELSE IF Len(buf) >= SnapshotLen /\ StartsWithPrefix(buf)
    THEN [buf |-> SubSeq(buf, SnapshotLen + 1, Len(buf)), stop |-> FALSE,
          what |-> "snapshot"]
    ELSE IF Len(buf) < 5 THEN [buf |-> buf, stop |-> TRUE, what |-> "wait"]
    ELSE LET start_idx == Find(buf, FRAME_START_BYTE)
         IN
         IF start_idx = 0
         THEN IF StartsWithPrefix(buf)
              THEN [buf |-> buf, stop |-> TRUE, what |-> "wait"]
              ELSE [buf |-> << >>, stop |-> TRUE, what |-> "discard"]
         ELSE LET cut == SubSeq(buf, start_idx, Len(buf))
              IN
              IF Len(cut) < 4
              THEN [buf |-> cut, stop |-> TRUE, what |-> "wait"]
              ELSE LET length == cut[4]
                       data_size == length - 1
                       total_size == TotalSize(length)
                   IN
                   IF Len(cut) < total_size
                   THEN [buf |-> cut, stop |-> TRUE, what |-> "wait"]
                   ELSE LET frame_bytes == SubSeq(cut, 1, 4 + data_size + 1)
                            rest == SubSeq(cut, total_size + 1, Len(cut))
                            encrypted_data == SubSeq(frame_bytes, 5, 4 + data_size)
                            checksum == frame_bytes[5 + data_size]
                            data == decrypt(encrypted_data, cfg)
                        IN  [buf |-> rest, stop |-> FALSE,
                             what |->
                                IF ~VerifyChecksum(encrypted_data, checksum)
                                THEN "badchecksum"
                                ELSE IF ~data.ok \/ Len(data.bytes) + 1 # length
                                THEN "error"
                                ELSE "frame"]

InitParseLoop ==
    /\ connected = TRUE
    /\ authenticated = TRUE
    /\ latestSnapshot = NoSnapshot
    /\ pendingWrites = EmptyMap
    /\ EngineIdle
    /\ bus = [m \in Modules |-> [o \in Outputs |-> OFF]]
    /\ shown = bus
    /\ rx = [pc |-> "recv"]
    /\ sv = NoCall
    /\ app = "idle"
    /\ cv = NoCover
    /\ ha = [up |-> OFF, down |-> OFF]
    /\ lastTx = NoTx
    /\ commanded = [m \in Modules |-> EmptyMap]
    /\ calls = 0
    /\ snapshots = 0
    /\ mode = "loop"
    /\ publicKey = 1
    /\ secure = SessionKey.secure
    /\ keyBytes = SessionKey.key
    /\ recvBuffer \in ParseBuffers
    /\ io = [step |-> "loop", pc |-> "loop", start |-> recvBuffer,
             iterations |-> 0, what |-> "none", before |-> << >>]

\* _parse_frames: the next iteration of `while len(self._recv_buffer) >= 2`
ParseLoopStep ==
    /\ mode = "loop"
    /\ io.pc = "loop"
    /\ io.iterations < MaxIterations
    /\ \E r \in {ParseIteration(recvBuffer, CipherState)} :
        /\ recvBuffer' = r.buf
        /\ io' = [io EXCEPT !.pc = IF r.stop THEN "wait" ELSE "loop",
                            !.iterations = @ + 1,
                            !.what = r.what,
                            !.before = recvBuffer]
    /\ UNCHANGED <<sessionVars, shadowVars, gatewayVars, callerVars,
                   engineVars, ghostVars, keyBytes, rx, sv>>

NextParseLoop == ParseLoopStep

\* the loop is a plain while loop of one thread: it keeps running
SpecParseLoop ==
    InitParseLoop /\ [][NextParseLoop]_vars /\ WF_vars(ParseLoopStep)

\* C36: the receive parser terminates on every finite buffer: every
\* iteration either ends the loop (to wait for more bytes) or leaves a
\* strictly shorter buffer, also for a length byte of 0 and for frames that
\* fail the checksum or the construction of the frame; so the loop has
\* ended after at most as many iterations as the buffer had bytes.
C36_ParserTerminates ==
    /\ [](mode = "loop" =>
            /\ io.iterations > 0 =>
                  (io.pc = "wait" \/ Len(recvBuffer) < Len(io.before))
            /\ io.iterations <= Len(io.start) + 1
            /\ io.iterations < MaxIterations)
    /\ <>(io.pc = "wait")

\* a frame with length byte 0 was taken off the buffer and the loop went on
C36_Witness ==
    /\ mode = "loop"
    /\ io.pc = "loop"
    /\ io.what = "error"
    /\ io.before[4] = 0
    /\ Len(recvBuffer) = Len(io.before) - 4

\* ------------------------------------------------------------------ C37
\* C37: once stop_persistent_connection has returned, the client stays
\* disconnected: as long as no new start succeeds, no step opens a
\* connection or authenticates, also not the step of a receive thread that
\* was in its reconnect back-off when stop was called.
C37_NoReconnectAfterStop ==
    [][(mode = "life" /\ io.stopDone /\ io'.stopDone) =>
            /\ connected' => connected
            /\ authenticated' => authenticated]_vars

\* ------------------------------------------------------------------ C38
\* the receive thread is a running thread: each of its steps is taken when
\* it stays possible (the sleep ends, recv returns or times out)
SpecLifecycleFair ==
    /\ SpecLifecycle
    /\ WF_vars(ReceiveCheck)
    /\ WF_vars(ReceiveReconnect)
    /\ WF_vars(ReceiveLoop)

\* persistent mode is on, no shutdown is requested and the session is
\* neither Established nor Degraded
AwaitingReconnect ==
    /\ mode = "life"
    /\ app = "up"
    /\ io.persistent
    /\ ~io.shutdown
    /\ ~SessionUp

\* C38: in persistent mode with auto_reconnect, whenever the session is not
\* up and no shutdown is requested, the receive thread eventually makes
\* another connect-and-authenticate attempt (unless a shutdown is requested
\* first), also after an authentication that failed during a reconnection
\* and while the gateway keeps the connection open.  The attempt is the end
\* of the receive thread's reconnect sleep.
C38_ReconnectIsRetried ==
    AwaitingReconnect ~> (rx.pc = "sleep" \/ io.shutdown \/ SessionUp)

\* ------------------------------------------------------------------ C39
\* C39: when the socket write of a set_value fails (send_command raises),
\* PendingWrites is left exactly as it was before the call: the step of
\* set_value that ends in the raised send changes no pending row.
C39_FailedWriteLeavesNoPendingRow ==
    [][(sv.pc = "commit" /\ sv'.pc = "raised") =>
            pendingWrites' = pendingWrites]_vars

\* ------------------------------------------- the buffer across sessions
MaxSessions == 2

\* what the gateway writes in one session: a raw snapshot or a keep-alive
\* frame
SessionStreams ==
    {SnapshotWire(v) : v \in 1..NumBodies}
    \cup {SendFrame(0, 1, d, SessionKey) : d \in {<<3>>, <<3, 7>>}}

\* a client in an established session as __init__, connect and authenticate
\* leave it (lines 277, 313-388, 424-589): nothing received yet
InitResume ==
    /\ connected = TRUE
    /\ authenticated = TRUE
    /\ latestSnapshot = NoSnapshot
    /\ pendingWrites = EmptyMap
    /\ EngineIdle
    /\ bus = [m \in Modules |-> [o \in Outputs |-> OFF]]
    /\ shown = bus
    /\ rx = [pc |-> "recv"]
    /\ sv = NoCall
    /\ app = "idle"
    /\ cv = NoCover
    /\ ha = [up |-> OFF, down |-> OFF]
    /\ lastTx = NoTx
    /\ commanded = [m \in Modules |-> EmptyMap]
    /\ calls = 0
    /\ snapshots = 0
    /\ mode = "resume"
    /\ publicKey = 1
    /\ secure = SessionKey.secure
    /\ keyBytes = SessionKey.key
    /\ recvBuffer = << >>
    /\ \E stream \in SessionStreams :
        io = [step |-> "resume", session |-> 1, fresh |-> TRUE,
              stream |-> stream, snaps |-> << >>, frames |-> << >>]

\* _receive_loop (lines 732-789) in a session: recv returns the next bytes,
\* they are appended to the buffer and the buffer is parsed
ResumeReceive ==
    /\ mode = "resume"
    /\ connected
    /\ io.stream # << >>
    /\ \E n \in ChunkSizes :
        LET size == IF n < Len(io.stream) THEN n ELSE Len(io.stream)
            data == SubSeq(io.stream, 1, size)
        IN  \E ps \in {ParseFrames([ParserState EXCEPT
                                        !.buf = recvBuffer \o data])} :
            /\ recvBuffer' = ps.buf
            /\ latestSnapshot' = ps.latest
            /\ pendingWrites' = ps.pending
            /\ snapshots' = snapshots + Len(ps.snaps)
            /\ io' = [io EXCEPT
                        !.fresh = FALSE,
                        !.stream = SubSeq(io.stream, size + 1, Len(io.stream)),
                        !.frames = @ \o ps.frames,
                        !.snaps = @ \o ps.snaps]
    /\ UNCHANGED <<sessionVars, gatewayVars, callerVars, engineVars, lastTx,
                   commanded, keyBytes, rx, sv>>

\* _receive_loop: recv returns no data or raises, _cleanup_socket runs
\* (lines 748-778, 412-422); what the gateway had not written yet is lost
ResumeClosed ==
    /\ mode = "resume"
    /\ connected
    /\ CleanupSocket
    /\ io' = [io EXCEPT !.fresh = FALSE, !.stream = << >>]
    /\ UNCHANGED <<shadowVars, gatewayVars, callerVars, engineVars, ghostVars,
                   keyBytes, recvBuffer, rx, sv>>

\* _persistent_receive_loop (lines 1619-1628): connect() and authenticate()
\* open the next session; neither touches _recv_buffer
ResumeReconnect ==
    /\ mode = "resume"
    /\ ~connected
    /\ io.session < MaxSessions
    /\ connected' = TRUE
    /\ authenticated' = TRUE
    /\ \E stream \in SessionStreams :
        io' = [io EXCEPT !.session = @ + 1, !.fresh = TRUE,
                         !.stream = stream]
    /\ UNCHANGED <<publicKey, secure, shadowVars, gatewayVars, callerVars,
                   engineVars, ghostVars, keyBytes, recvBuffer, rx, sv>>

NextResume == ResumeReceive \/ ResumeClosed \/ ResumeReconnect

SpecResume == InitResume /\ [][NextResume]_vars

\* C40: at the start of every new session on the same client the receive
\* buffer is empty, so bytes left over from the previous connection are
\* never parsed together with bytes of the new one.
C40_NewSessionStartsWithEmptyBuffer ==
    (mode = "resume" /\ io.fresh) => recvBuffer = << >>
====
